---------------------------- MODULE PgCommitProofs ----------------------------
(***************************************************************************)
(* For every number of requests and every pool: the statements, locks,     *)
(* rollbacks and orphans of PgCommit implement the atomic commit of        *)
(* ControlPlane.                                                           *)
(***************************************************************************)
EXTENDS PgCommit, TLAPS

Places == {"idle"} \cup InFlight \cup Answers

(* The part of PgConsistent that the refinement needs.                     *)
Agrees ==
  /\ pc \in [Requests -> Places]
  /\ tx \in [Requests -> Steps]
  /\ DOMAIN staged = Requests /\ DOMAIN held = Requests /\ DOMAIN snap = Requests
  /\ \A r \in Requests : TransactionAgrees(r)

-----------------------------------------------------------------------------
(* What a transaction has staged stays right.                              *)

(* While the tables rest.                                                  *)
LEMMA StagedRests ==
  ASSUME NEW q \in Requests, CommitApplies(q), sessions' = sessions,
         caller' = caller, held'[q] = held[q], snap'[q] = snap[q]
  PROVE  CommitApplies(q)' /\ CommittedSession(q)' = CommittedSession(q)
  BY DEF CommitApplies, CommittedSession, IsNewSession, Visible, AddTotals

(* While another row is written.                                           *)
LEMMA StagedKeeps ==
  ASSUME NEW q \in Requests, CommitApplies(q), NEW k, NEW row,
         sessions' = Put(sessions, k, row), held[q].session # k,
         caller' = caller, held'[q] = held[q], snap'[q] = snap[q]
  PROVE  CommitApplies(q)' /\ CommittedSession(q)' = CommittedSession(q)
  <1>1. CASE IsNewSession(q)
    BY <1>1 DEF CommitApplies, CommittedSession, IsNewSession, AddTotals, Put
  <1>2. CASE ~IsNewSession(q)
    <2> DEFINE s == held[q].session
    <2>1. s \in DOMAIN sessions /\ sessions[s].scope = caller[q]
      BY <1>2 DEF CommitApplies, Visible
    <2>2. s \in DOMAIN sessions' /\ sessions'[s] = sessions[s]
      BY <2>1 DEF Put
    <2> QED
      BY <1>2, <2>1, <2>2 DEF CommitApplies, CommittedSession, IsNewSession, Visible, AddTotals
  <1> QED
    BY <1>1, <1>2

-----------------------------------------------------------------------------
(* The invariant.                                                          *)

LEMMA AgreesInit == PgInit => Agrees
  BY DEF PgInit, Init, Agrees, TransactionAgrees, Places, Steps, Written

(* A step of r leaves the transactions of the others right, if the row it  *)
(* writes or locks is not one of theirs.                                   *)
LEMMA OthersKeep ==
  ASSUME Agrees, NEW r \in Requests,
         NEW place, pc' = [pc EXCEPT ![r] = place],
         NEW step, tx' = [tx EXCEPT ![r] = step],
         caller' = caller,
         \A q \in Requests \ {r} :
           staged'[q] = staged[q] /\ held'[q] = held[q] /\ snap'[q] = snap[q],
         sessions' = sessions \/ \E row : sessions' = Put(sessions, held[r].session, row),
         sessions' # sessions \/ step \in Written =>
           \A q \in Requests \ {r} : ~HasLock(q, held[r].session),
         step \in Written => held'[r] = held[r]
  PROVE  \A q \in Requests \ {r} : TransactionAgrees(q)'
  <1> SUFFICES ASSUME NEW q \in Requests \ {r} PROVE TransactionAgrees(q)'
    OBVIOUS
  <1>1. pc'[q] = pc[q] /\ tx'[q] = tx[q] /\ staged'[q] = staged[q]
    BY DEF Agrees
  <1>2. ASSUME tx[q] \in Written
        PROVE  CommitApplies(q)' /\ staged'[q] = CommittedSession(q)'
    <2>1. CommitApplies(q) /\ staged[q] = CommittedSession(q)
      BY <1>2 DEF Agrees, TransactionAgrees
    <2>2. CASE sessions' = sessions
      BY <2>1, <2>2, <1>1, StagedRests
    <2>3. CASE sessions' # sessions
      <3>1. held[q].session # held[r].session
        BY <2>3, <1>2 DEF HasLock
      <3>2. PICK row : sessions' = Put(sessions, held[r].session, row)
        BY <2>3
      <3> QED
        BY <2>1, <3>1, <3>2, <1>1, StagedKeeps
    <2> QED
      BY <2>2, <2>3
  <1>3. ASSUME tx[q] \in Written PROVE RowFree(q)'
    <2> SUFFICES ASSUME NEW p \in Requests \ {q} PROVE ~HasLock(p, held[q].session)'
      BY DEF RowFree
    <2>1. held'[q] = held[q]
      OBVIOUS
    <2>2. CASE p = r
      BY <2>1, <2>2, <1>3 DEF Agrees, HasLock
    <2>3. CASE p # r
      <3>1. tx'[p] = tx[p] /\ held'[p] = held[p]
        BY <2>3 DEF Agrees
      <3> QED
        BY <3>1, <2>1, <1>3 DEF Agrees, TransactionAgrees, RowFree, HasLock
    <2> QED
      BY <2>2, <2>3
  <1> QED
    BY <1>1, <1>2, <1>3 DEF Agrees, TransactionAgrees, MayFail

(* The types of a step of r.                                               *)
LEMMA StepTypes ==
  ASSUME Agrees, NEW r \in Requests,
         NEW place \in Places, pc' = [pc EXCEPT ![r] = place],
         NEW step \in Steps, tx' = [tx EXCEPT ![r] = step],
         DOMAIN staged' = Requests, DOMAIN held' = Requests, DOMAIN snap' = Requests,
         \A q \in Requests \ {r} : TransactionAgrees(q)',
         TransactionAgrees(r)'
  PROVE  Agrees'
  BY DEF Agrees

(* A request without a transaction, before and after a step of its own     *)
(* that writes no session row.                                             *)
LEMMA PlainStep ==
  ASSUME Agrees, NEW r \in Requests, NEW place \in Places,
         pc' = [pc EXCEPT ![r] = place], tx[r] \notin Written,
         tx' = [tx EXCEPT ![r] = "none"], staged' = staged,
         sessions' = sessions, caller' = caller,
         DOMAIN held' = Requests, DOMAIN snap' = Requests,
         \A q \in Requests \ {r} : held'[q] = held[q] /\ snap'[q] = snap[q]
  PROVE  Agrees'
  <1>1. \A q \in Requests \ {r} : TransactionAgrees(q)'
    BY OthersKeep DEF Written
  <1>2. TransactionAgrees(r)'
    BY DEF Agrees, TransactionAgrees, Written
  <1> QED
    BY <1>1, <1>2, StepTypes DEF Agrees, Steps

(* A request without a transaction has no entry of tx to change.           *)
LEMMA Untouched ==
  ASSUME Agrees, NEW r \in Requests,
         pc[r] \notin {"commit", "updateSession", "failed"} \/ tx[r] = "none"
  PROVE  tx[r] = "none" /\ tx = [tx EXCEPT ![r] = "none"]
  BY DEF Agrees, TransactionAgrees

LEMMA ArriveKeeps ==
  ASSUME Agrees, NEW r \in Requests, Arrive(r)
  PROVE  Agrees'
  <1>1. pc[r] = "idle" /\ tx' = tx /\ staged' = staged
    BY DEF Arrive, Refuse, IngestNewSession, IngestIntoSession, Prepare, BeginRetrieve
  <1>2. \E place \in Places : pc' = [pc EXCEPT ![r] = place]
    BY DEF Arrive, Refuse, IngestNewSession, IngestIntoSession, Prepare, BeginRetrieve,
           Goto, Places, Answers, InFlight
  <1>3. sessions' = sessions /\ caller' = caller
    BY DEF Arrive, Refuse, IngestNewSession, IngestIntoSession, Prepare, BeginRetrieve, tables
  <1>4. /\ DOMAIN held' = Requests /\ DOMAIN snap' = Requests
        /\ \A q \in Requests \ {r} : held'[q] = held[q] /\ snap'[q] = snap[q]
    <2>1. CASE Refuse(r)
      BY <2>1 DEF Agrees, Refuse
    <2>2. CASE BeginRetrieve(r)
      BY <2>2 DEF Agrees, BeginRetrieve
    <2>3. CASE IngestNewSession(r) \/ IngestIntoSession(r)
      BY <2>3 DEF Agrees, IngestNewSession, IngestIntoSession, Prepare
    <2> QED
      BY <2>1, <2>2, <2>3 DEF Arrive
  <1> QED
    BY <1>1, <1>2, <1>3, <1>4, Untouched, PlainStep DEF Written

LEMMA SingleCallKeeps ==
  ASSUME Agrees, NEW r \in Requests, SingleCall(r)
  PROVE  Agrees'
  <1>1. pc[r] \in {"updateObject", "getSession", "addEvent"}
    BY DEF SingleCall, UpdateObject, GetSession, GetSessionFails, AddEvent
  <1>2. tx' = tx /\ staged' = staged /\ sessions' = sessions /\ caller' = caller
    BY DEF SingleCall, UpdateObject, GetSession, GetSessionFails, AddEvent,
           tables
  <1>3. \E place \in Places : pc' = [pc EXCEPT ![r] = place]
    BY DEF SingleCall, UpdateObject, GetSession, GetSessionFails, AddEvent,
           Goto, Places, Answers, InFlight
  <1>4. held' = held /\ \E row : snap' = snap \/ snap' = [snap EXCEPT ![r] = row]
    BY DEF SingleCall, UpdateObject, GetSession, GetSessionFails, AddEvent
  <1>5. /\ DOMAIN held' = Requests /\ DOMAIN snap' = Requests
        /\ \A q \in Requests \ {r} : held'[q] = held[q] /\ snap'[q] = snap[q]
    BY <1>4 DEF Agrees
  <1> QED
    BY <1>1, <1>2, <1>3, <1>5, Untouched, PlainStep DEF Written

LEMMA TransactionKeeps ==
  ASSUME Agrees, NEW r \in Requests, Transaction(r)
  PROVE  Agrees'
  <1>1. CASE Begin(r)
    <2>1. pc[r] = "commit" /\ tx' = [tx EXCEPT ![r] = "begun"] /\ staged' = staged
      BY <1>1 DEF Begin, Statement, To
    <2>2. UNCHANGED vars /\ pc' = [pc EXCEPT ![r] = "commit"]
      BY <1>1, <2>1 DEF Begin, Statement, Agrees, vars
    <2>3. \A q \in Requests \ {r} : TransactionAgrees(q)'
      BY <2>1, <2>2, OthersKeep DEF vars, Written
    <2>4. TransactionAgrees(r)'
      BY <2>1, <2>2 DEF Agrees, TransactionAgrees, Written, vars
    <2> QED
      BY <2>1, <2>2, <2>3, <2>4, StepTypes DEF Agrees, Places, InFlight, Steps, vars
  <1>2. CASE WriteSession(r)
    <2>1. /\ pc[r] = "commit" /\ tx' = [tx EXCEPT ![r] = "session"]
          /\ staged' = [staged EXCEPT ![r] = CommittedSession(r)]
      BY <1>2 DEF WriteSession, Statement, To
    <2>2. UNCHANGED vars /\ pc' = [pc EXCEPT ![r] = "commit"]
      BY <1>2, <2>1 DEF WriteSession, Statement, Agrees, vars
    <2>3. CommitApplies(r) /\ RowFree(r)
      BY <1>2 DEF WriteSession
    <2>4. \A q \in Requests \ {r} : TransactionAgrees(q)'
      BY <2>1, <2>2, <2>3, OthersKeep DEF vars, Agrees, RowFree
    <2>5. CommitApplies(r)' /\ CommittedSession(r)' = CommittedSession(r)
      BY <2>2, <2>3, StagedRests DEF vars
    <2>6. RowFree(r)'
      BY <2>1, <2>2, <2>3 DEF RowFree, HasLock, vars, Agrees
    <2>7. TransactionAgrees(r)'
      BY <2>1, <2>2, <2>5, <2>6 DEF Agrees, TransactionAgrees, Written, vars
    <2> QED
      BY <2>1, <2>2, <2>4, <2>7, StepTypes
      DEF Agrees, Places, InFlight, Steps, Written, vars
  <1>3. CASE WriteRows(r)
    <2>1. PICK step \in {"object", "redactions", "event", "sent"} :
            tx' = [tx EXCEPT ![r] = step]
      BY <1>3 DEF WriteRows, Statement, To
    <2>2. pc[r] = "commit" /\ tx[r] \in Written /\ staged' = staged /\ UNCHANGED vars
      BY <1>3 DEF WriteRows, Statement, Written
    <2>3. pc' = [pc EXCEPT ![r] = "commit"]
      BY <2>2 DEF Agrees, vars
    <2>4. CommitApplies(r) /\ staged[r] = CommittedSession(r) /\ RowFree(r)
      BY <2>2 DEF Agrees, TransactionAgrees
    <2>5. \A q \in Requests \ {r} : TransactionAgrees(q)'
      BY <2>1, <2>2, <2>3, <2>4, OthersKeep DEF vars, RowFree
    <2>6. CommitApplies(r)' /\ CommittedSession(r)' = CommittedSession(r)
      BY <2>2, <2>4, StagedRests DEF vars
    <2>7. RowFree(r)'
      BY <2>1, <2>2, <2>4 DEF RowFree, HasLock, vars, Agrees
    <2>8. TransactionAgrees(r)'
      BY <2>1, <2>2, <2>4, <2>6, <2>7 DEF Agrees, TransactionAgrees, Written, vars
    <2> QED
      BY <2>1, <2>2, <2>3, <2>5, <2>8, StepTypes
      DEF Agrees, Places, InFlight, Steps, Written, vars
  <1>4. CASE Commit(r)
    <2>1. tx[r] \in Written /\ tx' = [tx EXCEPT ![r] = "none"]
      BY <1>4 DEF Commit, To, Written
    <2>2. PICK place \in Answers : pc' = [pc EXCEPT ![r] = place]
      BY <1>4 DEF Commit, Goto, Answers
    <2>3. UNCHANGED <<caller, held, snap, staged>>
      BY <1>4 DEF Commit
    <2>4. \E row : sessions' = Put(sessions, held[r].session, row)
      BY <1>4 DEF Commit, Publish
    <2>5. \A q \in Requests \ {r} : ~HasLock(q, held[r].session)
      BY <2>1 DEF Agrees, TransactionAgrees, RowFree
    <2>6. \A q \in Requests \ {r} : TransactionAgrees(q)'
      BY <2>1, <2>2, <2>3, <2>4, <2>5, OthersKeep DEF Written
    <2>7. TransactionAgrees(r)'
      BY <2>1 DEF Agrees, TransactionAgrees, Written
    <2> QED
      BY <2>1, <2>2, <2>3, <2>6, <2>7, StepTypes DEF Agrees, Places, Steps
  <1> QED
    BY <1>1, <1>2, <1>3, <1>4 DEF Transaction

LEMMA UpdateKeeps ==
  ASSUME Agrees, NEW r \in Requests,
         SendUpdate(r) \/ PgUpdateSession(r) \/ PgUpdateFails(r)
  PROVE  Agrees'
  <1>1. CASE SendUpdate(r)
    <2>1. /\ pc[r] = "updateSession" /\ tx' = [tx EXCEPT ![r] = "update"]
          /\ staged' = staged /\ UNCHANGED vars
      BY <1>1 DEF SendUpdate, To
    <2>2. pc' = [pc EXCEPT ![r] = "updateSession"]
      BY <2>1 DEF Agrees, vars
    <2>3. \A q \in Requests \ {r} : TransactionAgrees(q)'
      BY <2>1, <2>2, OthersKeep DEF vars, Written
    <2>4. TransactionAgrees(r)'
      BY <2>1 DEF Agrees, TransactionAgrees, Written, vars
    <2> QED
      BY <2>1, <2>2, <2>3, <2>4, StepTypes DEF Agrees, Places, InFlight, Steps, vars
  <1>2. CASE PgUpdateSession(r) \/ PgUpdateFails(r)
    <2>1. /\ tx[r] = "update" /\ tx' = [tx EXCEPT ![r] = "none"]
          /\ pc' = [pc EXCEPT ![r] = "addEvent"]
          /\ UNCHANGED <<caller, held, snap, staged>>
      BY <1>2 DEF PgUpdateSession, PgUpdateFails, UpdateSession, To, Goto
    <2>2. sessions' = sessions \/ \E row : sessions' = Put(sessions, held[r].session, row)
      BY <1>2 DEF PgUpdateSession, PgUpdateFails, UpdateSession
    <2>3. sessions' # sessions => \A q \in Requests \ {r} : ~HasLock(q, held[r].session)
      BY <1>2 DEF PgUpdateSession, PgUpdateFails, RowFree
    <2>4. \A q \in Requests \ {r} : TransactionAgrees(q)'
      BY <2>1, <2>2, <2>3, OthersKeep DEF Written
    <2>5. TransactionAgrees(r)'
      BY <2>1 DEF Agrees, TransactionAgrees, Written
    <2> QED
      BY <2>1, <2>4, <2>5, StepTypes DEF Agrees, Places, InFlight, Steps
  <1> QED
    BY <1>1, <1>2

LEMMA FailureKeeps ==
  ASSUME Agrees, NEW r \in Requests, Fails(r) \/ Break(r)
  PROVE  Agrees'
  <1>1. PICK step \in {"none", tx[r]} :
          /\ tx' = [tx EXCEPT ![r] = step]
          /\ step # "none" => Break(r) /\ pc[r] = "commit"
    BY DEF Fails, Break, To
  <1>2. pc' = [pc EXCEPT ![r] = "failed"] /\ UNCHANGED <<sessions, caller, held, snap, staged>>
    BY DEF Fails, Break, CommitFails, Abort, Goto, tables
  <1>3. step \in Written => CommitApplies(r) /\ staged[r] = CommittedSession(r) /\ RowFree(r)
    BY <1>1 DEF Agrees, TransactionAgrees, Written
  <1>4. \A q \in Requests \ {r} : TransactionAgrees(q)'
    BY <1>1, <1>2, <1>3, OthersKeep DEF RowFree
  <1>5. step \in Written =>
          CommitApplies(r)' /\ CommittedSession(r)' = CommittedSession(r)
    BY <1>2, <1>3, StagedRests
  <1>6. step \in Written => RowFree(r)'
    BY <1>1, <1>2, <1>3 DEF RowFree, HasLock, Agrees
  <1>7. step # "none" => MayFail
    BY <1>1 DEF Break, Abort
  <1>8. step # "update"
    BY <1>1 DEF Agrees, TransactionAgrees
  <1>9. TransactionAgrees(r)'
    BY <1>1, <1>2, <1>3, <1>5, <1>6, <1>7, <1>8
    DEF Agrees, TransactionAgrees, MayFail, Written
  <1>10. step \in Steps
    BY DEF Agrees, Steps
  <1> QED
    BY <1>1, <1>2, <1>4, <1>9, <1>10, StepTypes DEF Agrees, Places, Answers

LEMMA ServerKeeps ==
  ASSUME Agrees, NEW r \in Requests, Server(r)
  PROVE  Agrees'
  <1>1. /\ pc[r] = "failed" /\ tx' = [tx EXCEPT ![r] = "none"]
        /\ UNCHANGED <<pc, caller, held, snap, staged>>
    BY DEF Server, LateCommit, ServerEnds, Orphan, To, vars
  <1>2. pc' = [pc EXCEPT ![r] = "failed"]
    BY <1>1 DEF Agrees
  <1>3. sessions' = sessions \/ \E row : sessions' = Put(sessions, held[r].session, row)
    BY DEF Server, LateCommit, ServerEnds, Publish, vars
  <1>4. sessions' # sessions => \A q \in Requests \ {r} : ~HasLock(q, held[r].session)
    BY DEF Server, LateCommit, ServerEnds, vars, Agrees, TransactionAgrees, RowFree, Written
  <1>5. \A q \in Requests \ {r} : TransactionAgrees(q)'
    BY <1>1, <1>2, <1>3, <1>4, OthersKeep DEF Written
  <1>6. TransactionAgrees(r)'
    BY <1>1 DEF Agrees, TransactionAgrees, Written
  <1> QED
    BY <1>1, <1>2, <1>5, <1>6, StepTypes DEF Agrees, Places, Answers, Steps

LEMMA AgreesStep == Agrees /\ [PgNext]_pgVars => Agrees'
  <1> SUFFICES ASSUME Agrees, [PgNext]_pgVars PROVE Agrees'
    OBVIOUS
  <1>1. ASSUME NEW r \in Requests, Arrive(r) \/ Proceed(r) \/ Fault(r) \/ Server(r)
        PROVE  Agrees'
    BY <1>1, ArriveKeeps, SingleCallKeeps, TransactionKeeps, UpdateKeeps, FailureKeeps,
       ServerKeeps DEF Proceed, Fault
  <1>2. CASE UNCHANGED pgVars
    <2>1. \A q \in Requests : CommitApplies(q) =>
            CommitApplies(q)' /\ CommittedSession(q)' = CommittedSession(q)
      BY <1>2, StagedRests DEF pgVars
    <2> QED
      BY <1>2, <2>1 DEF pgVars, Agrees, TransactionAgrees, RowFree, HasLock, MayFail
  <1>3. CASE AllAnswered /\ UNCHANGED <<tx, staged>>
    BY <1>2, <1>3 DEF AllAnswered, vars, pgVars
  <1> QED
    BY <1>1, <1>2, <1>3 DEF PgNext

(* Whatever the requests, the pool and the failures: a transaction that    *)
(* has its row locked is alone with it, and holds what an atomic commit    *)
(* would write now (postgres.go:29-65).                                    *)
THEOREM TransactionsAgree == PgSpec => []Agrees
  BY AgreesInit, AgreesStep, PTL DEF PgSpec, PgSafety

-----------------------------------------------------------------------------
(* The refinement.                                                         *)

(* What does not read pc is the same on both levels.                       *)
LEMMA SameRows ==
  ASSUME NEW r \in Requests
  PROVE  /\ Atomic!CommitApplies(r) <=> CommitApplies(r)
         /\ Atomic!CommittedSession(r) = CommittedSession(r)
         /\ Atomic!RedactionRows(held[r]) = RedactionRows(held[r])
         /\ \A type : Atomic!EventOf(r, type) = EventOf(r, type)
         /\ \A table, k, row : Atomic!Put(table, k, row) = Put(table, k, row)
         /\ Atomic!MayFail <=> MayFail
         /\ Atomic!StoredObject(held[r]) = StoredObject(held[r])
         /\ \A table, sc, k : Atomic!Visible(table, sc, k) <=> Visible(table, sc, k)
  <1>1. \A table, sc, k : Atomic!Visible(table, sc, k) <=> Visible(table, sc, k)
    BY DEF Atomic!Visible, Visible
  <1>2. Atomic!IsNewSession(r) <=> IsNewSession(r)
    BY DEF Atomic!IsNewSession, IsNewSession
  <1>3. Atomic!CommitApplies(r) <=> CommitApplies(r)
    BY <1>1, <1>2 DEF Atomic!CommitApplies, CommitApplies
  <1>4. Atomic!CommittedSession(r) = CommittedSession(r)
    BY <1>2 DEF Atomic!CommittedSession, CommittedSession, Atomic!AddTotals, AddTotals
  <1>5. Atomic!RedactionRows(held[r]) = RedactionRows(held[r])
    BY DEF Atomic!RedactionRows, RedactionRows
  <1>6. \A type : Atomic!EventOf(r, type) = EventOf(r, type)
    BY DEF Atomic!EventOf, EventOf
  <1>7. \A table, k, row : Atomic!Put(table, k, row) = Put(table, k, row)
    BY DEF Atomic!Put, Put
  <1>8. Atomic!MayFail <=> MayFail
    BY DEF Atomic!MayFail, MayFail
  <1>9. Atomic!StoredObject(held[r]) = StoredObject(held[r])
    BY DEF Atomic!StoredObject, StoredObject
  <1> QED
    BY <1>1, <1>3, <1>4, <1>5, <1>6, <1>7, <1>8, <1>9

LEMMA SameReference ==
  ASSUME NEW tenant
  PROVE  Atomic!RefTenant(tenant) = RefTenant(tenant)
  <1>1. \A item, c : Atomic!IsLiteral(item, c) <=> IsLiteral(item, c)
    BY DEF Atomic!IsLiteral, IsLiteral
  <1>2. ASSUME NEW wire, NEW c PROVE Atomic!LastIndex(wire, c) = LastIndex(wire, c)
    BY DEF Atomic!LastIndex, LastIndex, Atomic!IsLiteral, IsLiteral
  <1>3. ASSUME NEW wire PROVE Atomic!HostPart(wire) = HostPart(wire)
    BY <1>2 DEF Atomic!HostPart, HostPart
  <1>4. ASSUME NEW host PROVE Atomic!ValidOptionalPort(host) <=> ValidOptionalPort(host)
    BY <1>1, <1>2 DEF Atomic!ValidOptionalPort, ValidOptionalPort
  <1>5. ASSUME NEW host PROVE Atomic!DecodableHost(host) <=> DecodableHost(host)
    BY DEF Atomic!DecodableHost, DecodableHost
  <1>6. ASSUME NEW wire PROVE Atomic!Parse(wire) = Parse(wire)
    BY <1>3, <1>4, <1>5 DEF Atomic!Parse, Parse, Atomic!NoHost, NoHost
  <1>7. Atomic!Encode(tenant) = Encode(tenant)
    BY DEF Atomic!Encode, Encode, Atomic!PathEscape, PathEscape
  <1> QED
    BY <1>6, <1>7 DEF Atomic!RefTenant, RefTenant

(* Where ControlPlane sees a request after its step.                       *)
LEMMA PcOfMoves ==
  ASSUME Agrees, NEW r \in Requests,
         NEW place, pc' = [pc EXCEPT ![r] = place],
         NEW step, tx' = [tx EXCEPT ![r] = step]
  PROVE  PcOf' = [PcOf EXCEPT ![r] =
                    IF place = "failed" /\ step = "sent" THEN "commit" ELSE place]
  BY DEF Agrees, PcOf, Orphan, Written

(* A step that takes the request from one place to another, for both.      *)
LEMMA PcOfFollows ==
  ASSUME Agrees, NEW r \in Requests, UNCHANGED tx, pc[r] # "failed",
         tx[r] = "none"
  PROVE  /\ PcOf[r] = pc[r]
         /\ \A place : pc' = [pc EXCEPT ![r] = place] => PcOf' = [PcOf EXCEPT ![r] = place]
  <1>1. tx' = [tx EXCEPT ![r] = "none"]
    BY DEF Agrees
  <1> QED
    BY <1>1, PcOfMoves DEF PcOf, Orphan

LEMMA ArriveMaps ==
  ASSUME Agrees, NEW r \in Requests, Arrive(r)
  PROVE  Atomic!Next
  <1>1. pc[r] = "idle" /\ tx' = tx
    BY DEF Arrive, Refuse, IngestNewSession, IngestIntoSession, Prepare, BeginRetrieve
  <1>2. tx[r] = "none"
    BY <1>1, Untouched
  <1>3. PcOf[r] = "idle"
        /\ \A place : pc' = [pc EXCEPT ![r] = place] => PcOf' = [PcOf EXCEPT ![r] = place]
    BY <1>1, <1>2, PcOfFollows
  <1>4. CASE Refuse(r)
    BY <1>3, <1>4 DEF Refuse, Goto, tables, Atomic!Next, Atomic!Refuse, Atomic!Goto, Atomic!tables
  <1>5. ASSUME NEW s, NEW session, NEW text, Prepare(r, s, session, text)
        PROVE  Atomic!Prepare(r, s, session, text)
    BY <1>3, <1>5 DEF Prepare, Atomic!Prepare, Goto, Atomic!Goto, tables, Atomic!tables,
       NewObject, Atomic!NewObject, AddTotals, Atomic!AddTotals
  <1>6. CASE IngestNewSession(r)
    <2>1. Atomic!IngestNewSession(r)
      BY <1>5, <1>6 DEF IngestNewSession, Atomic!IngestNewSession, Fresh, Atomic!Fresh
    <2> QED
      BY <2>1 DEF Atomic!Next, Atomic!Ingest
  <1>7. CASE IngestIntoSession(r)
    <2>1. Atomic!IngestIntoSession(r)
      BY <1>5, <1>7, SameRows DEF IngestIntoSession, Atomic!IngestIntoSession
    <2> QED
      BY <2>1 DEF Atomic!Next, Atomic!Ingest
  <1>8. CASE BeginRetrieve(r)
    <2>1. PICK o \in DOMAIN objects :
            /\ Retrievable(caller[r], o)
            /\ held' = [held EXCEPT ![r] = CountRetrieval(objects[o])]
            /\ Goto(r, "updateObject")
            /\ UNCHANGED <<tables, caller, snap>>
      BY <1>8 DEF BeginRetrieve
    <2>2. Atomic!Retrievable(caller[r], o)
      BY <2>1, SameRows, SameReference DEF Retrievable, Atomic!Retrievable
    <2>3. Atomic!BeginRetrieve(r)
      BY <1>3, <2>1, <2>2 DEF Atomic!BeginRetrieve, Goto, Atomic!Goto, tables, Atomic!tables,
         CountRetrieval, Atomic!CountRetrieval
    <2> QED
      BY <2>3 DEF Atomic!Next, Atomic!Retrieve
  <1> QED
    BY <1>4, <1>6, <1>7, <1>8 DEF Arrive

LEMMA SingleCallMaps ==
  ASSUME Agrees, NEW r \in Requests, SingleCall(r)
  PROVE  Atomic!Next
  <1>1. pc[r] \in {"updateObject", "getSession", "addEvent"} /\ tx' = tx
    BY DEF SingleCall, UpdateObject, GetSession, GetSessionFails, AddEvent
  <1>2. tx[r] = "none"
    BY <1>1, Untouched
  <1>3. PcOf[r] = pc[r]
        /\ \A place : pc' = [pc EXCEPT ![r] = place] => PcOf' = [PcOf EXCEPT ![r] = place]
    BY <1>1, <1>2, PcOfFollows
  <1>4. ASSUME UpdateObject(r) PROVE Atomic!UpdateObject(r)
    BY <1>3, <1>4, SameRows DEF UpdateObject, Atomic!UpdateObject, Goto, Atomic!Goto
  <1>5. ASSUME GetSession(r) PROVE Atomic!GetSession(r)
    BY <1>3, <1>5, SameRows DEF GetSession, Atomic!GetSession, Goto, Atomic!Goto, tables,
       Atomic!tables, CountRetrieval, Atomic!CountRetrieval
  <1>6. ASSUME GetSessionFails(r) PROVE Atomic!GetSessionFails(r)
    BY <1>3, <1>6, SameRows DEF GetSessionFails, Atomic!GetSessionFails, Goto, Atomic!Goto,
       tables, Atomic!tables
  <1>7. ASSUME AddEvent(r) PROVE Atomic!AddEvent(r)
    BY <1>3, <1>7, SameRows DEF AddEvent, Atomic!AddEvent, Goto, Atomic!Goto
  <1> QED
    BY <1>4, <1>5, <1>6, <1>7 DEF SingleCall, Atomic!Next, Atomic!Retrieve

(* An UPDATE of a session row, or the end of one that failed.              *)
LEMMA UpdateMaps ==
  ASSUME Agrees, NEW r \in Requests, PgUpdateSession(r) \/ PgUpdateFails(r)
  PROVE  Atomic!Next
  <1>1. /\ pc[r] = "updateSession" /\ tx' = [tx EXCEPT ![r] = "none"]
        /\ UpdateSession(r)
    BY DEF PgUpdateSession, PgUpdateFails, UpdateSession, To
  <1>2. PcOf[r] = "updateSession" /\ PcOf' = [PcOf EXCEPT ![r] = "addEvent"]
    BY <1>1, PcOfMoves DEF UpdateSession, Goto, PcOf, Orphan
  <1>3. Atomic!UpdateSession(r)
    BY <1>1, <1>2, SameRows DEF UpdateSession, Atomic!UpdateSession, Atomic!Goto
  <1> QED
    BY <1>3 DEF Atomic!Next, Atomic!Retrieve

(* COMMIT, in time or late, is the atomic commit.                          *)
LEMMA CommitMaps ==
  ASSUME Agrees, NEW r \in Requests, Commit(r) \/ LateCommit(r)
  PROVE  Atomic!Next
  <1>1. tx[r] = "sent" /\ tx' = [tx EXCEPT ![r] = "none"]
    BY DEF Commit, LateCommit, To
  <1>2. CommitApplies(r) /\ staged[r] = CommittedSession(r)
    BY <1>1 DEF Agrees, TransactionAgrees, Written
  <1>3. Publish(r) /\ UNCHANGED <<caller, held, snap>>
    BY DEF Commit, LateCommit
  <1>4. PcOf[r] = "commit"
    BY <1>1 DEF PcOf, Orphan, Written, Commit, LateCommit
  <1>5. \/ PcOf' = [PcOf EXCEPT ![r] = "ingested"]
        \/ MayFail /\ PcOf' = [PcOf EXCEPT ![r] = "failed"]
    <2>1. CASE Commit(r)
      <3>1. PICK place : /\ pc' = [pc EXCEPT ![r] = place]
                         /\ \/ place = "ingested"
                            \/ MayFail /\ place = "failed"
        BY <2>1 DEF Commit, Goto
      <3>2. PcOf' = [PcOf EXCEPT ![r] = IF place = "failed" /\ "none" = "sent"
                                         THEN "commit" ELSE place]
        BY <1>1, <3>1, PcOfMoves
      <3> QED
        BY <3>1, <3>2
    <2>2. CASE LateCommit(r)
      <3>1. pc' = [pc EXCEPT ![r] = "failed"] /\ MayFail
        BY <1>1, <2>2 DEF LateCommit, Orphan, Agrees, TransactionAgrees
      <3>2. PcOf' = [PcOf EXCEPT ![r] = IF "failed" = "failed" /\ "none" = "sent"
                                         THEN "commit" ELSE "failed"]
        BY <1>1, <3>1, PcOfMoves
      <3> QED
        BY <3>1, <3>2
    <2> QED
      BY <2>1, <2>2
  <1>6. Atomic!CommitIngest(r)
    BY <1>2, <1>3, <1>4, <1>5, SameRows DEF Atomic!CommitIngest, Atomic!Goto, Publish
  <1> QED
    BY <1>6 DEF Atomic!Next, Atomic!Ingest

(* A statement that fails, or a COMMIT that the server never sees.         *)
LEMMA FailureMaps ==
  ASSUME Agrees, NEW r \in Requests, Fails(r)
  PROVE  Atomic!Next
  <1>1. pc[r] = "commit" /\ PcOf[r] = "commit" /\ (MayFail \/ ~CommitApplies(r))
    BY DEF Fails, CommitFails, PcOf, Orphan
  <1>2. PcOf' = [PcOf EXCEPT ![r] = "failed"] /\ UNCHANGED <<tables, caller, held, snap>>
    BY PcOfMoves DEF Fails, CommitFails, Goto, To
  <1>3. Atomic!CommitFails(r)
    BY <1>1, <1>2, SameRows DEF Atomic!CommitFails, Atomic!Goto, tables, Atomic!tables
  <1> QED
    BY <1>3 DEF Atomic!Next, Atomic!Ingest

(* A call that breaks has failed, unless its COMMIT is on its way.         *)
LEMMA BreakMaps ==
  ASSUME Agrees, NEW r \in Requests, Break(r)
  PROVE  Atomic!Next \/ UNCHANGED Atomic!vars
  <1>1. /\ pc[r] \in InFlight /\ MayFail
        /\ pc' = [pc EXCEPT ![r] = "failed"]
        /\ UNCHANGED <<tables, caller, held, snap>>
    BY DEF Break, Abort, Goto
  <1>2. PcOf[r] = pc[r]
    BY <1>1 DEF PcOf, Orphan, InFlight
  <1>3. PICK step \in {"none", tx[r]} :
          /\ tx' = [tx EXCEPT ![r] = step]
          /\ step # "none" => pc[r] = "commit"
    BY DEF Break, To
  <1>4. CASE step = "sent"
    <2>1. PcOf' = [PcOf EXCEPT ![r] = "commit"]
      BY <1>1, <1>3, <1>4, PcOfMoves
    <2>2. PcOf' = PcOf
      BY <1>2, <1>3, <1>4, <2>1 DEF PcOf
    <2> QED
      BY <1>1, <2>2 DEF tables, Atomic!vars
  <1>5. CASE step # "sent"
    <2>1. PcOf' = [PcOf EXCEPT ![r] = "failed"]
      BY <1>1, <1>3, <1>5, PcOfMoves
    <2>2. Atomic!Abort(r)
      BY <1>1, <1>2, <2>1, SameRows
      DEF Atomic!Abort, Atomic!Goto, tables, Atomic!tables, InFlight, Atomic!InFlight
    <2> QED
      BY <2>2 DEF Atomic!Next
  <1> QED
    BY <1>4, <1>5

(* A server that rolls an orphan back decides the commit that was open.    *)
LEMMA ServerEndsMaps ==
  ASSUME Agrees, NEW r \in Requests, ServerEnds(r)
  PROVE  Atomic!Next \/ UNCHANGED Atomic!vars
  <1>1. /\ pc[r] = "failed" /\ tx[r] # "none" /\ UNCHANGED <<vars, staged>>
        /\ tx' = [tx EXCEPT ![r] = "none"]
    BY DEF ServerEnds, Orphan, To, Written
  <1>2. MayFail /\ pc' = [pc EXCEPT ![r] = "failed"]
    BY <1>1 DEF Agrees, TransactionAgrees, vars
  <1>3. PcOf' = [PcOf EXCEPT ![r] = "failed"]
    BY <1>1, <1>2, PcOfMoves
  <1>4. CASE tx[r] = "sent"
    <2>1. PcOf[r] = "commit"
      BY <1>1, <1>4 DEF PcOf, Orphan, Written
    <2>2. Atomic!CommitFails(r)
      BY <1>1, <1>2, <1>3, <2>1, SameRows
      DEF Atomic!CommitFails, Atomic!Goto, vars, Atomic!tables
    <2> QED
      BY <2>2 DEF Atomic!Next, Atomic!Ingest
  <1>5. CASE tx[r] # "sent"
    <2>1. PcOf' = PcOf
      BY <1>1, <1>3, <1>5 DEF PcOf, Orphan
    <2> QED
      BY <1>1, <2>1 DEF vars, Atomic!vars
  <1> QED
    BY <1>4, <1>5

(* A statement before COMMIT shows nothing to anybody else.                *)
LEMMA StatementMaps ==
  ASSUME Agrees, NEW r \in Requests,
         Begin(r) \/ WriteSession(r) \/ WriteRows(r) \/ SendUpdate(r)
  PROVE  UNCHANGED Atomic!vars
  <1>1. UNCHANGED vars /\ pc[r] # "failed"
    BY DEF Begin, WriteSession, WriteRows, SendUpdate, Statement
  <1>2. PICK step : tx' = [tx EXCEPT ![r] = step]
    BY DEF Begin, WriteSession, WriteRows, SendUpdate, Statement, To
  <1>3. PcOf' = PcOf
    BY <1>1, <1>2 DEF PcOf, Orphan, Agrees, vars
  <1> QED
    BY <1>1, <1>3 DEF vars, Atomic!vars

LEMMA PgStepMaps ==
  Agrees /\ [PgNext]_pgVars => [Atomic!Next]_(Atomic!vars)
  <1> SUFFICES ASSUME Agrees, [PgNext]_pgVars
               PROVE  Atomic!Next \/ UNCHANGED Atomic!vars
    OBVIOUS
  <1>1. ASSUME NEW r \in Requests, Arrive(r) \/ Proceed(r) \/ Fault(r) \/ Server(r)
        PROVE  Atomic!Next \/ UNCHANGED Atomic!vars
    BY <1>1, ArriveMaps, SingleCallMaps, UpdateMaps, CommitMaps, FailureMaps, BreakMaps,
       ServerEndsMaps, StatementMaps DEF Proceed, Transaction, Fault, Server
  <1>2. CASE UNCHANGED pgVars
    BY <1>2 DEF pgVars, Atomic!vars, PcOf, Orphan
  <1>3. CASE AllAnswered /\ UNCHANGED <<tx, staged>>
    BY <1>2, <1>3 DEF AllAnswered, vars, pgVars
  <1> QED
    BY <1>1, <1>2, <1>3 DEF PgNext

(* For every number of requests and every pool, with or without failures:  *)
(* the transaction of CommitIngest, statement by statement, does what one  *)
(* atomic commit may do (postgres.go:29-65).                               *)
THEOREM TransactionImplementsCommit == PgSpec => ImplementsAtomicCommit
  <1>1. PgInit => Atomic!Init
    BY DEF PgInit, Init, Atomic!Init, PcOf, Orphan, Written, EmptyTable, Atomic!EmptyTable
  <1> QED
    BY <1>1, TransactionsAgree, PgStepMaps, PTL
    DEF PgSpec, PgSafety, ImplementsAtomicCommit, Atomic!Spec

-----------------------------------------------------------------------------
(* What is proved of ControlPlane holds of PgCommit, read through PcOf.    *)

Service == INSTANCE ControlPlaneProofs WITH pc <- PcOf

(* The constants are the same, and so is what is assumed of them.          *)
LEMMA SameConstants ==
  /\ Service!IsFiniteSet(Requests)
  /\ Service!Session = Session /\ Service!Object = Object
  /\ Service!Redaction = Redaction /\ Service!Event = Event
  /\ Service!RawModes = RawModes /\ Service!Adapters = Adapters
  /\ Service!TenantIds = TenantIds
  /\ Service!InFlight = InFlight
  BY RequestsFinite
  DEF IsFiniteSet, Service!IsFiniteSet, Session, Service!Session, Object, Service!Object,
      Redaction, Service!Redaction, Event, Service!Event, RawModes, Service!RawModes,
      Adapters, Service!Adapters, TenantIds, Service!TenantIds, Chars, Service!Chars,
      InFlight, Service!InFlight

(* The instance that PgCommit implements is the one the proofs are about,  *)
(* definition by definition.                                               *)
LEMMA SameService == Atomic!Spec => Service!Spec
  <1>1. Atomic!Init => Service!Init
    BY DEF Atomic!Init, Service!Init, Atomic!EmptyTable, Service!EmptyTable
  <1>2. [Atomic!Next]_(Atomic!vars) => [Service!Next]_(Service!vars)
    BY DEF Atomic!vars, Service!vars, Atomic!tables, Service!tables, Atomic!Visible,
           Service!Visible, Atomic!EmptyTable, Service!EmptyTable, Atomic!Put,
           Service!Put, Atomic!StoredObject, Service!StoredObject,
           Atomic!MayFail, Service!MayFail, Atomic!Goto, Service!Goto,
           Atomic!Fresh, Service!Fresh, Atomic!NewObject, Service!NewObject,
           Atomic!AddTotals, Service!AddTotals, Atomic!CountRetrieval,
           Service!CountRetrieval, Atomic!EventOf, Service!EventOf,
           Atomic!RedactionRows, Service!RedactionRows, Atomic!Refuse,
           Service!Refuse, Atomic!Prepare, Service!Prepare,
           Atomic!IngestNewSession, Service!IngestNewSession,
           Atomic!IngestIntoSession, Service!IngestIntoSession,
           Atomic!IsNewSession, Service!IsNewSession, Atomic!CommitApplies,
           Service!CommitApplies, Atomic!CommittedSession,
           Service!CommittedSession, Atomic!CommitIngest, Service!CommitIngest,
           Atomic!CommitFails, Service!CommitFails, Atomic!Retrievable,
           Service!Retrievable, Atomic!BeginRetrieve, Service!BeginRetrieve,
           Atomic!UpdateObject, Service!UpdateObject, Atomic!GetSession,
           Service!GetSession, Atomic!GetSessionFails, Service!GetSessionFails,
           Atomic!UpdateSession, Service!UpdateSession, Atomic!AddEvent,
           Service!AddEvent, Atomic!Abort, Service!Abort, Atomic!Restart,
           Service!Restart, Atomic!AllAnswered, Service!AllAnswered,
           Atomic!Ingest, Service!Ingest, Atomic!Retrieve, Service!Retrieve,
           Atomic!Next, Service!Next, Atomic!InFlight, Service!InFlight,
           Atomic!Answers, Service!Answers, Atomic!NoHost, Service!NoHost,
           Atomic!PathEscape, Service!PathEscape, Atomic!Encode, Service!Encode,
           Atomic!IsLiteral, Service!IsLiteral, Atomic!LastIndex,
           Service!LastIndex, Atomic!HostPart, Service!HostPart,
           Atomic!ValidOptionalPort, Service!ValidOptionalPort,
           Atomic!DecodableHost, Service!DecodableHost, Atomic!Parse,
           Service!Parse, Atomic!RefTenant, Service!RefTenant
  <1> QED
    BY <1>1, <1>2, PTL DEF Atomic!Spec, Service!Spec

(* A state that PcOf turns into a consistent one of ControlPlane.          *)
LEMMA AlwaysConsistentBelow == PgSpec => []Service!Consistent
  <1>1. Service!Spec => []Service!Consistent
    BY SameConstants, Service!AlwaysConsistent, ScopesTyped, FindingsTyped, ConfigTyped,
       NothingIsNoRow
  <1> QED
    BY <1>1, TransactionImplementsCommit, SameService, PTL DEF ImplementsAtomicCommit

(* What does not read the program counters is the same.                    *)
LEMMA SameTypes ==
  ASSUME Service!Consistent, Agrees
  PROVE  /\ TypeOK
         /\ \A r \in Requests : pc[r] = "commit" => CommittedSession(r) \in Session
  <1>1. TypeOK
    BY SameConstants
    DEF Service!Consistent, Service!TypeOK, TypeOK, Service!IsTable, IsTable, Agrees, Places
  <1>2. ASSUME NEW r \in Requests, pc[r] = "commit"
        PROVE  CommittedSession(r) \in Session
    <2>1. PcOf[r] = "commit"
      BY <1>2 DEF PcOf, Orphan
    <2>2. Service!CommittedSession(r) \in Session
      BY <2>1, SameConstants, Service!CommittedTyped, ScopesTyped, FindingsTyped, ConfigTyped,
         NothingIsNoRow
    <2>3. Service!CommittedSession(r) = CommittedSession(r)
      BY DEF Service!CommittedSession, CommittedSession, Service!IsNewSession, IsNewSession,
         Service!AddTotals, AddTotals
    <2> QED
      BY <2>2, <2>3
  <1> QED
    BY <1>1, <1>2

(* A transaction stages session rows only.                                 *)
StagedTyped == staged \in [Requests -> Session \cup {Nothing}]

LEMMA StagedStep ==
  StagedTyped /\ Agrees /\ Service!Consistent /\ [PgNext]_pgVars => StagedTyped'
  <1> SUFFICES ASSUME StagedTyped, Agrees, Service!Consistent, [PgNext]_pgVars
               PROVE  StagedTyped'
    OBVIOUS
  <1>1. ASSUME NEW r \in Requests, WriteSession(r) PROVE StagedTyped'
    <2>1. CommittedSession(r) \in Session
      BY <1>1, SameTypes DEF WriteSession, Statement
    <2> QED
      BY <1>1, <2>1 DEF WriteSession, StagedTyped
  <1>2. UNCHANGED staged => StagedTyped'
    BY DEF StagedTyped
  <1>3. ASSUME NEW r \in Requests, Arrive(r) \/ Proceed(r) \/ Fault(r) \/ Server(r),
               ~WriteSession(r)
        PROVE  UNCHANGED staged
    BY <1>3
    DEF Arrive, Proceed, Transaction, Begin, WriteRows, Commit, SingleCall, SendUpdate,
        PgUpdateSession, Fault, Fails, PgUpdateFails, Break, Server, LateCommit, ServerEnds
  <1> QED
    BY <1>1, <1>2, <1>3 DEF PgNext, pgVars

(* For every number of requests and every pool: everything is of its type, *)
(* transactions with a row written exclude each other from that row, and   *)
(* each still holds what an atomic commit would write                      *)
(* (postgres.go:36-47, 127-129).                                           *)
THEOREM PgAlwaysConsistent == PgSpec => []PgConsistent
  <1>1. PgInit => StagedTyped
    BY DEF PgInit, StagedTyped
  <1>2. PgSpec => []StagedTyped
    BY <1>1, StagedStep, TransactionsAgree, AlwaysConsistentBelow, PTL DEF PgSpec, PgSafety
  <1>3. StagedTyped /\ Agrees /\ Service!Consistent => PgConsistent
    BY SameTypes DEF StagedTyped, PgConsistent, PgTypeOK, Agrees
  <1> QED
    BY <1>2, <1>3, TransactionsAgree, AlwaysConsistentBelow, PTL

(* The properties that read tables and held rows only.                     *)
LEMMA SameProperties ==
  /\ Service!EvidenceIsWhole <=> EvidenceIsWhole
  /\ Service!StaysInScope <=> StaysInScope
  /\ Service!TotalsNeverOverclaim <=> TotalsNeverOverclaim
  /\ Service!ExactUntilRetrieved <=> ExactUntilRetrieved
  /\ Service!RetrievalsNeverOvercounted <=> RetrievalsNeverOvercounted
  <1>1. \A s, o : /\ Service!Belongs(s, o) <=> Belongs(s, o)
                  /\ Service!Counted(s, o) = Counted(s, o)
    BY DEF Service!Belongs, Belongs, Service!Counted, Counted
  <1>2. \A obj : Service!RedactionRows(obj) = RedactionRows(obj)
    BY DEF Service!RedactionRows, RedactionRows
  <1>3. \A table, sc, k : Service!Visible(table, sc, k) <=> Visible(table, sc, k)
    BY DEF Service!Visible, Visible
  <1>4. \A o : /\ Cardinality(Service!Retrievers(o)) = Cardinality(Retrievers(o))
               /\ Cardinality(Service!SessionRetrievers(o)) = Cardinality(SessionRetrievers(o))
    BY DEF Service!Retrievers, Retrievers, Service!SessionRetrievers, SessionRetrievers,
       Service!IsRetrieval, IsRetrieval
  <1>5. \A S : Service!Cardinality(S) = Cardinality(S)
    BY DEF Service!Cardinality, Cardinality
  <1>6. Service!EvidenceIsWhole <=> EvidenceIsWhole
    BY <1>1, <1>2 DEF Service!EvidenceIsWhole, EvidenceIsWhole
  <1>7. Service!StaysInScope <=> StaysInScope
    BY <1>3 DEF Service!StaysInScope, StaysInScope
  <1>8. Service!TotalsNeverOverclaim <=> TotalsNeverOverclaim
    BY <1>1 DEF Service!TotalsNeverOverclaim, TotalsNeverOverclaim
  <1>9. Service!ExactUntilRetrieved <=> ExactUntilRetrieved
    BY <1>1 DEF Service!ExactUntilRetrieved, ExactUntilRetrieved
  <1>10. Service!RetrievalsNeverOvercounted <=> RetrievalsNeverOvercounted
    BY <1>4, <1>5 DEF Service!RetrievalsNeverOvercounted, RetrievalsNeverOvercounted
  <1> QED
    BY <1>6, <1>7, <1>8, <1>9, <1>10

(* Whatever fails between the statements of a transaction, is left behind  *)
(* by a handler that is gone, or is committed after its client has got an  *)
(* error: evidence is whole, everything stays in its scope, and no total   *)
(* and no counter claims too much (postgres.go:29-65, 127-133).            *)
THEOREM EvidenceThroughTransactions ==
  PgSpec => [](/\ EvidenceIsWhole /\ StaysInScope
               /\ TotalsNeverOverclaim /\ RetrievalsNeverOvercounted)
  <1>1. /\ Service!Spec => []Service!EvidenceIsWhole
        /\ Service!Spec => []Service!StaysInScope
        /\ Service!Spec => []Service!TotalsNeverOverclaim
        /\ Service!Spec => []Service!RetrievalsNeverOvercounted
    BY SameConstants, ScopesTyped, FindingsTyped, ConfigTyped, NothingIsNoRow,
       Service!EvidenceAlwaysWhole, Service!AlwaysInScope, Service!TotalsSafe,
       Service!CountsSafe
  <1> QED
    BY <1>1, TransactionImplementsCommit, SameService, SameProperties, PTL
    DEF ImplementsAtomicCommit

(* The deltas of the transactions, each behind its row's lock, add up: a   *)
(* session from which nothing was retrieved has exact totals               *)
(* (postgres.go:39).                                                       *)
THEOREM ExactThroughTransactions ==
  ASSUME Adapter = "postgres"
  PROVE  PgSpec => []ExactUntilRetrieved
  <1>1. Service!Spec => []Service!ExactUntilRetrieved
    BY SameConstants, ScopesTyped, FindingsTyped, ConfigTyped, NothingIsNoRow,
       Service!ExactSafe
  <1> QED
    BY <1>1, TransactionImplementsCommit, SameService, SameProperties, PTL
    DEF ImplementsAtomicCommit

(* References read the same in both instances.                             *)
LEMMA SameReferences ==
  ASSUME NEW tenant
  PROVE  Service!RefTenant(tenant) = RefTenant(tenant)
  <1>1. Service!RefTenant(tenant) = Atomic!RefTenant(tenant)
    BY DEF Atomic!NoHost, Service!NoHost, Atomic!PathEscape, Service!PathEscape,
           Atomic!Encode, Service!Encode, Atomic!IsLiteral, Service!IsLiteral,
           Atomic!LastIndex, Service!LastIndex, Atomic!HostPart, Service!HostPart,
           Atomic!ValidOptionalPort, Service!ValidOptionalPort,
           Atomic!DecodableHost, Service!DecodableHost, Atomic!Parse,
           Service!Parse, Atomic!RefTenant, Service!RefTenant
  <1> QED
    BY <1>1, SameReference

(* PcOf shows an acknowledgement exactly when the handler has sent one.    *)
LEMMA SameAcknowledgements ==
  ASSUME Agrees
  PROVE  Service!AcknowledgedIngestIsRetrievable <=> AcknowledgedIngestIsRetrievable
  <1>1. \A r \in Requests : PcOf[r] = "ingested" <=> pc[r] = "ingested"
    BY DEF PcOf, Orphan
  <1>2. \A sc, o : Service!Retrievable(sc, o) <=> Retrievable(sc, o)
    BY SameReferences DEF Service!Retrievable, Retrievable, Service!Visible, Visible
  <1> QED
    BY <1>1, <1>2 DEF Service!AcknowledgedIngestIsRetrievable, AcknowledgedIngestIsRetrievable

(* An ingest is acknowledged only after its COMMIT, and what COMMIT has    *)
(* published stays: its caller can retrieve it from then on, if references *)
(* resolve (postgres.go:64, service.go:197-204).                           *)
THEOREM AcknowledgedThroughTransactions ==
  ASSUME Adapter = "postgres", \A sc \in Scopes : RefTenant(sc.tenant) = sc.tenant
  PROVE  PgSpec => []AcknowledgedIngestIsRetrievable
  <1>1. Service!ReferencesResolve
    BY SameReferences DEF Service!ReferencesResolve
  <1>2. Service!Spec => []Service!AcknowledgedIngestIsRetrievable
    BY <1>1, SameConstants, ScopesTyped, FindingsTyped, ConfigTyped, NothingIsNoRow,
       Service!AcknowledgedSafe
  <1> QED
    BY <1>2, TransactionImplementsCommit, TransactionsAgree, SameService,
       SameAcknowledgements, PTL DEF ImplementsAtomicCommit

(* So the transactions implement the ledger of evidence, which sees the    *)
(* request of an open COMMIT as pending (postgres.go:29-65).               *)
THEOREM TransactionsImplementLedger ==
  ASSUME Adapter = "postgres"
  PROVE  PgSpec => Service!ImplementsLedger
  <1>1. Service!Spec => Service!ImplementsLedger
    BY SameConstants, ScopesTyped, FindingsTyped, ConfigTyped, NothingIsNoRow,
       Service!ServiceImplementsLedger
  <1> QED
    BY <1>1, TransactionImplementsCommit, SameService, PTL DEF ImplementsAtomicCommit
=============================================================================
