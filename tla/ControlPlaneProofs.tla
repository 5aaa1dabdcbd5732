-------------------------- MODULE ControlPlaneProofs --------------------------
(***************************************************************************)
(* Machine-checked proofs about ControlPlane, for every number of requests *)
(* and callers, either adapter, every raw mode, with and without faults.   *)
(***************************************************************************)
EXTENDS ControlPlaneProperties, FiniteSetTheorems, TLAPS

-----------------------------------------------------------------------------
(* The operators of the stores.                                            *)

(* A table stays a table of its type when a row of the type is put in it.  *)
LEMMA PutTyped ==
  ASSUME NEW Rows, NEW table, IsTable(table, Rows), NEW k \in Requests, NEW row \in Rows
  PROVE  IsTable(Put(table, k, row), Rows)
  BY DEF Put, IsTable

(* Counting keeps rows rows.                                               *)
LEMMA CountTyped ==
  /\ \A obj \in Object : CountRetrieval(obj) \in Object
  /\ \A session \in Session : CountRetrieval(session) \in Session
  /\ \A session \in Session, o \in Requests : AddTotals(session, o) \in Session
  BY DEF CountRetrieval, AddTotals, Object, Session

(* What counting leaves alone.                                             *)
LEMMA CountKeeps ==
  /\ \A obj \in Object :
       /\ CountRetrieval(obj).id = obj.id
       /\ CountRetrieval(obj).session = obj.session
       /\ CountRetrieval(obj).scope = obj.scope
       /\ CountRetrieval(obj).text = obj.text
       /\ CountRetrieval(obj).raw = obj.raw
       /\ CountRetrieval(obj).retrieved = obj.retrieved + 1
  /\ \A session \in Session :
       /\ CountRetrieval(session).scope = session.scope
       /\ CountRetrieval(session).totals = session.totals
       /\ CountRetrieval(session).retrieved = session.retrieved + 1
  BY DEF CountRetrieval, Object, Session

(* What adding an object to a session does.                                *)
LEMMA AddTotalsKeeps ==
  ASSUME NEW session \in Session, NEW o \in Requests
  PROVE  /\ AddTotals(session, o).scope = session.scope
         /\ AddTotals(session, o).retrieved = session.retrieved
         /\ AddTotals(session, o).totals[o] = session.totals[o] + 1
         /\ \A p \in Requests :
              p # o => AddTotals(session, o).totals[p] = session.totals[p]
  BY DEF AddTotals, Session

(* A new session and a new object are rows of their tables.                *)
LEMMA BuiltTyped ==
  ASSUME TypeOK, NEW r \in Requests
  PROVE  /\ Fresh(r) \in Session
         /\ \A s \in Requests, text \in Texts : NewObject(r, s, text) \in Object
  BY ConfigTyped DEF TypeOK, Fresh, NewObject, Session, Object

(* What CommitIngest writes into the session table is a session row.       *)
LEMMA CommittedTyped ==
  ASSUME Consistent, NEW r \in Requests, pc[r] = "commit"
  PROVE  /\ held[r] \in Object /\ held[r].id = r
         /\ held[r].session \in Requests
         /\ snap[r] \in Session
         /\ CommittedSession(r) \in Session
         /\ CommittedSession(r).scope = caller[r]
<1>1. held[r] \in Object /\ held[r].id = r /\ snap[r] \in Session /\ snap[r].scope = caller[r]
  BY DEF Consistent, TypeOK, HandlersAgree, HandlerAgrees, InFlight
<1>2. held[r].session \in Requests
  BY <1>1 DEF Object
<1>3. CASE Adapter = "memory" \/ IsNewSession(r)
  BY <1>1, <1>2, <1>3 DEF CommittedSession
<1>4. CASE ~(Adapter = "memory" \/ IsNewSession(r))
  <2>1. Visible(sessions, caller[r], held[r].session)
    BY <1>4 DEF Consistent, HandlersAgree, HandlerAgrees, CommitApplies
  <2>2. sessions[held[r].session] \in Session /\ sessions[held[r].session].scope = caller[r]
    BY <2>1 DEF Consistent, TypeOK, IsTable, Visible
  <2> QED BY <1>1, <1>2, <1>4, <2>2, CountTyped, AddTotalsKeeps DEF CommittedSession
<1> QED BY <1>3, <1>4

(* What UpdateObject writes is what was there, apart from the count.       *)
LEMMA StoredKeeps ==
  ASSUME Consistent, NEW r \in Requests, pc[r] = "updateObject"
  PROVE  LET o == held[r].id
             stored == StoredObject(held[r])
         IN  /\ held[r] \in Object /\ o \in DOMAIN objects /\ o \in Requests
             /\ objects[o] \in Object /\ stored \in Object
             /\ stored.id = o /\ stored.session = objects[o].session
             /\ stored.scope = objects[o].scope /\ stored.text = objects[o].text
             /\ stored.raw = objects[o].raw
             /\ stored.retrieved = held[r].retrieved
<1> DEFINE o == held[r].id
<1>1. held[r] \in Object /\ Visible(objects, caller[r], o)
  BY DEF Consistent, TypeOK, HandlersAgree, HandlerAgrees, InFlight, InRetrieval
<1>2. o \in DOMAIN objects /\ o \in Requests /\ objects[o] \in Object
  BY <1>1 DEF Visible, Consistent, TypeOK, IsTable, Object
<1>3. /\ objects[o].id = o /\ objects[o].session = held[r].session
      /\ objects[o].scope = held[r].scope /\ objects[o].text = held[r].text
      /\ objects[o].raw = held[r].raw
  BY <1>1, <1>2, NothingIsNoRow
     DEF Visible, Consistent, HandlersAgree, HandlerAgrees, TablesAgree, ObjectAgrees, InRetrieval
<1> QED BY <1>1, <1>2, <1>3 DEF StoredObject, Object

(* A handler past its first read holds an object, and holds its session    *)
(* when it is about to write it.                                           *)
LEMMA HandlersHold ==
  ASSUME Consistent, NEW r \in Requests
  PROVE  /\ pc[r] \in InFlight => held[r] \in Object
         /\ pc[r] \in {"commit", "updateSession"} => snap[r] \in Session
  BY DEF Consistent, TypeOK, HandlersAgree, HandlerAgrees

-----------------------------------------------------------------------------
(* Every step keeps the tables and the handlers' state of their types.     *)
LEMMA TypeStep ==
  ASSUME Consistent, [Next]_vars
  PROVE  TypeOK'
<1> USE DEF tables, Goto
<1>0. TypeOK BY DEF Consistent
<1>1. ASSUME NEW r \in Requests, Refuse(r) PROVE TypeOK'
  BY <1>0, <1>1 DEF TypeOK, Refuse, Answers
<1>2. ASSUME NEW r \in Requests, IngestNewSession(r) PROVE TypeOK'
  <2>1. PICK text \in Texts : Prepare(r, r, Fresh(r), text)
    BY <1>2 DEF IngestNewSession
  <2>2. NewObject(r, r, text) \in Object /\ AddTotals(Fresh(r), r) \in Session
    BY <1>0, BuiltTyped, CountTyped
  <2> QED BY <1>0, <2>1, <2>2 DEF TypeOK, Prepare, InFlight
<1>3. ASSUME NEW r \in Requests, IngestIntoSession(r) PROVE TypeOK'
  <2>1. PICK s \in DOMAIN sessions, text \in Texts : Prepare(r, s, sessions[s], text)
    BY <1>3 DEF IngestIntoSession
  <2>2. NewObject(r, s, text) \in Object /\ AddTotals(sessions[s], r) \in Session
    BY <1>0, <2>1, BuiltTyped, CountTyped DEF TypeOK, IsTable
  <2> QED BY <1>0, <2>1, <2>2 DEF TypeOK, Prepare, InFlight
<1>4. ASSUME NEW r \in Requests, CommitIngest(r) PROVE TypeOK'
  <2>1. /\ held[r] \in Object /\ held[r].id = r /\ held[r].session \in Requests
        /\ CommittedSession(r) \in Session
    BY <1>4, CommittedTyped DEF CommitIngest
  <2>2. IsTable(sessions', Session)
    BY <1>0, <1>4, <2>1, PutTyped DEF CommitIngest, TypeOK
  <2>3. IsTable(objects', Object)
    BY <1>0, <1>4, <2>1, PutTyped DEF CommitIngest, TypeOK
  <2>4. RedactionRows(held[r]) \subseteq Redaction
    BY <2>1, FindingsTyped DEF RedactionRows, Redaction, Object
  <2>5. EventOf(r, "object_ingested") \in Event
    BY <1>0, <2>1 DEF EventOf, Event, Object, TypeOK
  <2>6. pc' \in [Requests -> {"idle"} \cup InFlight \cup Answers]
    BY <1>0, <1>4 DEF CommitIngest, TypeOK, Answers
  <2> QED BY <1>0, <1>4, <2>2, <2>3, <2>4, <2>5, <2>6 DEF CommitIngest, TypeOK
<1>5. ASSUME NEW r \in Requests, CommitFails(r) PROVE TypeOK'
  BY <1>0, <1>5 DEF TypeOK, CommitFails, Answers
<1>6. ASSUME NEW r \in Requests, BeginRetrieve(r) PROVE TypeOK'
  <2>1. PICK o \in DOMAIN objects :
          /\ held' = [held EXCEPT ![r] = CountRetrieval(objects[o])]
          /\ pc' = [pc EXCEPT ![r] = "updateObject"]
          /\ UNCHANGED <<tables, caller, snap>>
    BY <1>6 DEF BeginRetrieve
  <2>2. CountRetrieval(objects[o]) \in Object
    BY <1>0, CountTyped DEF TypeOK, IsTable
  <2> QED BY <1>0, <2>1, <2>2 DEF TypeOK, InFlight
<1>7. ASSUME NEW r \in Requests, UpdateObject(r) PROVE TypeOK'
  <2>1. held[r].id \in Requests /\ StoredObject(held[r]) \in Object
    BY <1>7, StoredKeeps DEF UpdateObject
  <2>2. IsTable(objects', Object)
    BY <1>0, <1>7, <2>1, PutTyped DEF UpdateObject, TypeOK
  <2> QED BY <1>0, <1>7, <2>2 DEF UpdateObject, TypeOK, InFlight
<1>8. ASSUME NEW r \in Requests, GetSession(r) PROVE TypeOK'
  <2>1. CountRetrieval(sessions[held[r].session]) \in Session
    BY <1>0, <1>8, CountTyped DEF GetSession, Visible, TypeOK, IsTable
  <2> QED BY <1>0, <1>8, <2>1 DEF GetSession, TypeOK, InFlight
<1>9. ASSUME NEW r \in Requests, GetSessionFails(r) PROVE TypeOK'
  BY <1>0, <1>9 DEF TypeOK, GetSessionFails, InFlight
<1>10. ASSUME NEW r \in Requests, UpdateSession(r) PROVE TypeOK'
  <2>1. held[r].session \in Requests /\ snap[r] \in Session
    BY <1>10, HandlersHold DEF UpdateSession, InFlight, Object
  <2>2. IsTable(sessions', Session)
    BY <1>0, <1>10, <2>1, PutTyped DEF UpdateSession, TypeOK
  <2> QED BY <1>0, <1>10, <2>2 DEF UpdateSession, TypeOK, InFlight
<1>11. ASSUME NEW r \in Requests, AddEvent(r) PROVE TypeOK'
  <2>1. EventOf(r, "object_retrieved") \in Event
    BY <1>0, <1>11, HandlersHold DEF AddEvent, InFlight, EventOf, Event, Object, TypeOK
  <2> QED BY <1>0, <1>11, <2>1 DEF AddEvent, TypeOK, Answers
<1>12. ASSUME NEW r \in Requests, Abort(r) PROVE TypeOK'
  BY <1>0, <1>12 DEF TypeOK, Abort, Answers
<1>13. CASE Restart
  BY <1>0, <1>13 DEF TypeOK, IsTable, Restart, EmptyTable, Answers
<1>14. CASE UNCHANGED vars
  BY <1>0, <1>14 DEF TypeOK, vars
<1> QED
  BY <1>1, <1>2, <1>3, <1>4, <1>5, <1>6, <1>7, <1>8, <1>9, <1>10, <1>11, <1>12,
     <1>13, <1>14
  DEF Next, Ingest, Retrieve, AllAnswered

-----------------------------------------------------------------------------
(* What is stored stays: only a restart of the Memory store removes rows,  *)
(* and nothing but counters and totals of a row ever changes.              *)
Kept ==
  /\ \A o \in DOMAIN objects :
       /\ o \in DOMAIN objects'
       /\ objects'[o].id = objects[o].id
       /\ objects'[o].session = objects[o].session
       /\ objects'[o].scope = objects[o].scope
       /\ objects'[o].text = objects[o].text
       /\ objects'[o].raw = objects[o].raw
  /\ \A s \in DOMAIN sessions :
       s \in DOMAIN sessions' /\ sessions'[s].scope = sessions[s].scope

(* An ingest whose object is not committed has no object in the tables; a  *)
(* session not opened has none either.                                     *)
LEMMA Uncommitted ==
  ASSUME Consistent, NEW r \in Requests, pc[r] \notin {"ingested", "failed"}
  PROVE  r \notin DOMAIN objects /\ r \notin DOMAIN sessions
  BY DEF Consistent, TablesAgree, ObjectAgrees, Belongs

(* A committed session row keeps its scope.                                *)
LEMMA CommitKeeps ==
  ASSUME Consistent, NEW r \in Requests, CommitIngest(r)
  PROVE  Kept
<1>1. r \notin DOMAIN objects
  BY Uncommitted DEF CommitIngest
<1>2. CommittedSession(r).scope = caller[r]
  BY CommittedTyped DEF CommitIngest
<1>3. \A s \in DOMAIN sessions :
        s \in DOMAIN sessions' /\ sessions'[s].scope = sessions[s].scope
  <2>1. ASSUME NEW s \in DOMAIN sessions, s = held[r].session
        PROVE  sessions[s].scope = caller[r]
    BY <2>1, Uncommitted
    DEF CommitIngest, CommitApplies, IsNewSession, Visible
  <2> QED BY <1>2, <2>1 DEF CommitIngest, Put
<1>4. \A o \in DOMAIN objects : o \in DOMAIN objects' /\ objects'[o] = objects[o]
  BY <1>1 DEF CommitIngest, Put
<1> QED BY <1>3, <1>4 DEF Kept

LEMMA UpdateObjectKeeps ==
  ASSUME Consistent, NEW r \in Requests, UpdateObject(r)
  PROVE  Kept
<1>1. CASE UNCHANGED objects
  BY <1>1 DEF UpdateObject, Kept
<1>2. CASE objects' = Put(objects, held[r].id, StoredObject(held[r]))
  <2> DEFINE o == held[r].id
  <2>1. /\ StoredObject(held[r]).id = o /\ objects[o].id = o
        /\ StoredObject(held[r]).session = objects[o].session
        /\ StoredObject(held[r]).scope = objects[o].scope
        /\ StoredObject(held[r]).text = objects[o].text
        /\ StoredObject(held[r]).raw = objects[o].raw
    BY StoredKeeps DEF UpdateObject, Consistent, TablesAgree, ObjectAgrees
  <2> QED BY <1>2, <2>1 DEF UpdateObject, Kept, Put
<1> QED BY <1>1, <1>2 DEF UpdateObject

LEMMA UpdateSessionKeeps ==
  ASSUME Consistent, NEW r \in Requests, UpdateSession(r)
  PROVE  Kept
<1> DEFINE s == held[r].session
<1>1. /\ snap[r].scope = caller[r]
      /\ Visible(objects, caller[r], held[r].id)
      /\ objects[held[r].id].session = s
  BY DEF UpdateSession, Consistent, HandlersAgree, HandlerAgrees, InRetrieval
<1>2. Visible(sessions, caller[r], s)
  BY <1>1 DEF Visible, Consistent, TablesAgree, ObjectAgrees
<1>3. CASE UNCHANGED sessions
  BY <1>3 DEF UpdateSession, Kept
<1>4. CASE sessions' = Put(sessions, s, snap[r])
  BY <1>1, <1>2, <1>4 DEF UpdateSession, Kept, Visible, Put
<1> QED BY <1>3, <1>4 DEF UpdateSession

(* The steps of the service but for the loss of a Memory store.            *)
Serving ==
  \/ \E r \in Requests : Refuse(r) \/ Ingest(r) \/ Retrieve(r) \/ Abort(r)
  \/ AllAnswered

LEMMA ServingKeeps ==
  ASSUME Consistent, [Serving]_vars
  PROVE  Kept
<1>1. ASSUME NEW r \in Requests, UNCHANGED tables PROVE Kept
  BY <1>1 DEF tables, Kept
<1>2. ASSUME NEW r \in Requests, Ingest(r) PROVE Kept
  BY <1>2, <1>1, CommitKeeps
  DEF Ingest, IngestNewSession, IngestIntoSession, Prepare, CommitFails
<1>3. ASSUME NEW r \in Requests, AddEvent(r) PROVE Kept
  BY <1>3 DEF AddEvent, Kept
<1>4. ASSUME NEW r \in Requests, Retrieve(r) PROVE Kept
  BY <1>4, <1>1, <1>3, UpdateObjectKeeps, UpdateSessionKeeps
  DEF Retrieve, BeginRetrieve, GetSession, GetSessionFails
<1>5. CASE UNCHANGED vars
  BY <1>5 DEF vars, Kept
<1> QED
  BY <1>1, <1>2, <1>4, <1>5 DEF Serving, Refuse, Abort, AllAnswered

LEMMA NothingIsLost ==
  ASSUME Consistent, [Next]_vars, ~Restart
  PROVE  Kept
  BY ServingKeeps DEF Next, Serving

-----------------------------------------------------------------------------
(* Every step keeps HandlersAgree.                                         *)

(* A step of another handler does not disturb what q knows.                *)
LEMMA OthersAgree ==
  ASSUME Consistent, Kept, NEW q \in Requests, caller' = caller,
         pc'[q] = pc[q], held'[q] = held[q], snap'[q] = snap[q]
  PROVE  HandlerAgrees(q)'
<1>1. HandlerAgrees(q)
  BY DEF Consistent, HandlersAgree
<1>2. CommitApplies(q) => CommitApplies(q)'
  BY DEF CommitApplies, IsNewSession, Visible, Kept
<1>3. pc[q] \in InRetrieval =>
        /\ Visible(objects, caller[q], held[q].id)'
        /\ objects'[held'[q].id].session = held'[q].session
        /\ objects'[held'[q].id].text = held'[q].text
  BY <1>1 DEF HandlerAgrees, Visible, Kept
<1> QED BY <1>1, <1>2, <1>3 DEF HandlerAgrees

(* A handler that gives up keeps what it holds.                            *)
LEMMA FailedAgrees ==
  ASSUME Consistent, NEW r \in Requests, caller' = caller, held' = held,
         pc'[r] = "failed"
  PROVE  HandlerAgrees(r)'
  BY DEF Consistent, HandlersAgree, HandlerAgrees, InFlight, InRetrieval

(* A retrieval whose object is still there keeps agreeing on it.           *)
LEMMA RetrievalAgrees ==
  ASSUME Consistent, Kept, NEW r \in Requests, pc[r] \in InRetrieval,
         caller' = caller, held' = held,
         pc'[r] \in InRetrieval \cup {"retrieved"},
         pc'[r] = "updateSession" => snap'[r] # Nothing /\ snap'[r].scope = caller[r]
  PROVE  HandlerAgrees(r)'
<1>1. HandlerAgrees(r) /\ held[r] # Nothing
  BY DEF Consistent, HandlersAgree, HandlerAgrees, InFlight, InRetrieval
<1>2. /\ Visible(objects, caller[r], held[r].id)'
      /\ objects'[held'[r].id].session = held'[r].session
      /\ objects'[held'[r].id].text = held'[r].text
  BY <1>1 DEF HandlerAgrees, Visible, Kept
<1> QED BY <1>1, <1>2 DEF HandlerAgrees, InFlight, InRetrieval

(* A handler that has built an object agrees with itself.                  *)
LEMMA PrepareAgrees ==
  ASSUME Consistent, NEW r \in Requests, NEW s \in Requests, NEW text \in Texts,
         NEW session \in Session, session.scope = caller[r],
         s = r \/ Visible(sessions, caller[r], s),
         Prepare(r, s, session, text)
  PROVE  HandlerAgrees(r)'
<1>1. /\ held'[r] = NewObject(r, s, text) /\ held'[r] \in Object
      /\ snap'[r] = AddTotals(session, r) /\ snap'[r] \in Session
      /\ snap'[r].scope = caller[r]
      /\ pc'[r] = "commit" /\ caller' = caller /\ sessions' = sessions
  BY BuiltTyped, CountTyped, AddTotalsKeeps
  DEF Prepare, Goto, Consistent, TypeOK, tables
<1>2. held'[r] # Nothing /\ snap'[r] # Nothing
  BY <1>1, NothingIsNoRow
<1>3. CommitApplies(r)'
  BY <1>1 DEF CommitApplies, IsNewSession, Visible, NewObject
<1> QED BY <1>1, <1>2, <1>3 DEF HandlerAgrees, NewObject, InRetrieval

LEMMA HandlersStep ==
  ASSUME Consistent, [Next]_vars
  PROVE  HandlersAgree'
<1> USE DEF Goto
<1>0. TypeOK /\ HandlersAgree
  BY DEF Consistent
<1>1. CASE Restart
  BY <1>0, <1>1
  DEF Restart, HandlersAgree, HandlerAgrees, InFlight, InRetrieval, TypeOK, Answers
<1>2. CASE UNCHANGED vars
  BY <1>0, <1>2
  DEF vars, HandlersAgree, HandlerAgrees, Visible, CommitApplies, IsNewSession
<1>3. ASSUME ~Restart,
             NEW r \in Requests, Refuse(r) \/ Ingest(r) \/ Retrieve(r) \/ Abort(r)
      PROVE  HandlersAgree'
  <2>1. Kept
    BY <1>3, NothingIsLost
  <2>2. /\ caller' = caller
        /\ \A q \in Requests \ {r} :
             pc'[q] = pc[q] /\ held'[q] = held[q] /\ snap'[q] = snap[q]
    BY <1>0, <1>3
    DEF TypeOK, Refuse, Ingest, IngestNewSession, IngestIntoSession, Prepare,
        CommitIngest, CommitFails, Retrieve, BeginRetrieve, UpdateObject, GetSession,
        GetSessionFails, UpdateSession, AddEvent, Abort
  <2>3. HandlerAgrees(r)'
    <3>1. CASE Refuse(r) \/ CommitFails(r) \/ Abort(r)
      BY <1>0, <3>1, FailedAgrees DEF TypeOK, Refuse, CommitFails, Abort
    <3>2. CASE IngestNewSession(r)
      <4>1. PICK text \in Texts : Prepare(r, r, Fresh(r), text)
        BY <3>2 DEF IngestNewSession
      <4>2. Fresh(r) \in Session /\ Fresh(r).scope = caller[r]
        BY <1>0, BuiltTyped DEF Fresh
      <4> QED BY <4>1, <4>2, PrepareAgrees
    <3>3. CASE IngestIntoSession(r)
      <4>1. PICK s \in DOMAIN sessions, text \in Texts :
              Visible(sessions, caller[r], s) /\ Prepare(r, s, sessions[s], text)
        BY <3>3 DEF IngestIntoSession
      <4>2. s \in Requests /\ sessions[s] \in Session /\ sessions[s].scope = caller[r]
        BY <1>0, <4>1 DEF TypeOK, IsTable, Visible
      <4> QED BY <4>1, <4>2, PrepareAgrees
    <3>4. CASE CommitIngest(r)
      <4>1. /\ pc'[r] \in {"ingested", "failed"} /\ held' = held
            /\ HandlerAgrees(r) /\ pc[r] = "commit"
        BY <1>0, <3>4 DEF TypeOK, CommitIngest, HandlersAgree
      <4> QED BY <2>2, <4>1 DEF HandlerAgrees, InFlight, InRetrieval
    <3>5. CASE BeginRetrieve(r)
      <4>1. PICK o \in DOMAIN objects :
              /\ Retrievable(caller[r], o)
              /\ held' = [held EXCEPT ![r] = CountRetrieval(objects[o])]
              /\ pc' = [pc EXCEPT ![r] = "updateObject"]
              /\ UNCHANGED <<tables, caller, snap>>
        BY <3>5 DEF BeginRetrieve
      <4>2. /\ objects[o] \in Object /\ objects[o].id = o
            /\ objects[o].raw = StoreRawMode
        BY <1>0 DEF TypeOK, IsTable, Consistent, TablesAgree, ObjectAgrees
      <4>3. /\ held'[r] = CountRetrieval(objects[o]) /\ held'[r] # Nothing
            /\ pc'[r] = "updateObject" /\ objects' = objects
        BY <1>0, <4>1, <4>2, CountTyped, NothingIsNoRow DEF TypeOK, tables
      <4>4. Visible(objects, caller[r], o) /\ objects[o].scope = caller[r]
        BY <4>1 DEF Retrievable, Visible
      <4> QED
        BY <2>2, <4>2, <4>3, <4>4, CountKeeps DEF HandlerAgrees, InRetrieval
    <3>6. CASE GetSession(r)
      <4>1. /\ sessions[held[r].session] \in Session
            /\ sessions[held[r].session].scope = caller[r]
        BY <1>0, <3>6 DEF GetSession, Visible, TypeOK, IsTable
      <4>2. /\ snap'[r] = CountRetrieval(sessions[held[r].session])
            /\ snap'[r] # Nothing /\ snap'[r].scope = caller[r]
        BY <1>0, <3>6, <4>1, CountTyped, CountKeeps, NothingIsNoRow
        DEF GetSession, TypeOK
      <4>3. /\ pc[r] = "getSession" /\ pc'[r] = "updateSession"
            /\ held' = held /\ caller' = caller
        BY <1>0, <3>6 DEF GetSession, TypeOK
      <4> QED BY <2>1, <4>2, <4>3, RetrievalAgrees DEF InRetrieval
    <3>7. CASE UpdateObject(r) \/ GetSessionFails(r) \/ UpdateSession(r) \/ AddEvent(r)
      <4>1. /\ pc[r] \in InRetrieval /\ held' = held /\ caller' = caller
            /\ pc'[r] \in {"getSession", "addEvent", "retrieved"}
        BY <1>0, <3>7
        DEF TypeOK, UpdateObject, GetSessionFails, UpdateSession, AddEvent, InRetrieval
      <4> QED BY <2>1, <4>1, RetrievalAgrees DEF InRetrieval
    <3> QED
      BY <1>3, <3>1, <3>2, <3>3, <3>4, <3>5, <3>6, <3>7 DEF Ingest, Retrieve
  <2> QED BY <2>1, <2>2, <2>3, OthersAgree DEF HandlersAgree
<1> QED BY <1>1, <1>2, <1>3 DEF Next, AllAnswered

-----------------------------------------------------------------------------
(* Every step keeps TablesAgree.                                           *)

(* A request with an object in the tables has been answered: it rests.     *)
LEMMA ServingRests ==
  ASSUME Consistent, [Serving]_vars, NEW o \in DOMAIN objects
  PROVE  /\ o \in Requests
         /\ pc'[o] = pc[o] /\ held'[o] = held[o] /\ caller' = caller
<1>1. o \in Requests /\ pc[o] \in {"ingested", "failed"} /\ TypeOK
  BY DEF Consistent, TypeOK, IsTable, TablesAgree, ObjectAgrees
<1>2. CASE UNCHANGED vars
  BY <1>1, <1>2 DEF vars
<1>3. ASSUME NEW r \in Requests, Refuse(r) \/ Ingest(r) \/ Retrieve(r) \/ Abort(r)
      PROVE  pc'[o] = pc[o] /\ held'[o] = held[o] /\ caller' = caller
  <2>1. r # o
    BY <1>1, <1>3
    DEF Refuse, Ingest, IngestNewSession, IngestIntoSession, Prepare,
        CommitIngest, CommitFails, Retrieve, BeginRetrieve, UpdateObject, GetSession,
        GetSessionFails, UpdateSession, AddEvent, Abort, InFlight
  <2> QED
    BY <1>1, <1>3, <2>1
    DEF TypeOK, Refuse, Ingest, IngestNewSession, IngestIntoSession, Prepare, Goto,
        CommitIngest, CommitFails, Retrieve, BeginRetrieve, UpdateObject, GetSession,
        GetSessionFails, UpdateSession, AddEvent, Abort
<1> QED BY <1>1, <1>2, <1>3 DEF Serving, AllAnswered

LEMMA AnsweredRest ==
  ASSUME Consistent, [Next]_vars, ~Restart, NEW o \in DOMAIN objects
  PROVE  /\ o \in Requests
         /\ pc'[o] = pc[o] /\ held'[o] = held[o] /\ caller' = caller
  BY ServingRests DEF Next, Serving

(* Only CommitIngest adds an object, and only its own; only CommitIngest   *)
(* adds a session.                                                         *)
LEMMA OnlyCommitAdds ==
  ASSUME Consistent, [Next]_vars, ~Restart, ~(\E r \in Requests : CommitIngest(r))
  PROVE  DOMAIN objects' = DOMAIN objects /\ DOMAIN sessions' = DOMAIN sessions
<1>1. ASSUME NEW r \in Requests, UpdateObject(r)
      PROVE  DOMAIN objects' = DOMAIN objects /\ DOMAIN sessions' = DOMAIN sessions
  BY <1>1, StoredKeeps DEF UpdateObject, Put
<1>2. ASSUME NEW r \in Requests, UpdateSession(r)
      PROVE  DOMAIN objects' = DOMAIN objects /\ DOMAIN sessions' = DOMAIN sessions
  <2>1. held[r].session \in DOMAIN sessions
    BY <1>2
    DEF UpdateSession, Consistent, HandlersAgree, HandlerAgrees, InRetrieval,
        TablesAgree, ObjectAgrees, Visible
  <2> QED BY <1>2, <2>1 DEF UpdateSession, Put
<1> QED
  BY <1>1, <1>2
  DEF Next, Refuse, Ingest, IngestNewSession, IngestIntoSession, Prepare, CommitFails,
      Retrieve, BeginRetrieve, GetSession, GetSessionFails, AddEvent, Abort,
      AllAnswered, vars, tables

LEMMA TablesStep ==
  ASSUME Consistent, [Next]_vars
  PROVE  TablesAgree'
<1>0. TypeOK /\ TablesAgree
  BY DEF Consistent
<1>1. CASE Restart
  BY <1>1 DEF Restart, EmptyTable, TablesAgree
<1>2. CASE ~Restart
  <2>1. Kept
    BY <1>2, NothingIsLost
  <2>2. ASSUME NEW o \in DOMAIN objects PROVE ObjectAgrees(o)'
    <3>1. ObjectAgrees(o)
      BY <1>0 DEF TablesAgree
    <3>2. pc'[o] = pc[o] /\ held'[o] = held[o] /\ caller' = caller
      BY <1>2, AnsweredRest
    <3> QED BY <2>1, <3>1, <3>2 DEF ObjectAgrees, Visible, Kept
  <2>3. ASSUME NEW s \in DOMAIN sessions PROVE Belongs(s, s)'
    BY <1>0, <2>1 DEF TablesAgree, Belongs, Kept
  <2>4. ASSUME NEW r \in Requests, CommitIngest(r)
        PROVE  ObjectAgrees(r)' /\ objects'[r].session = held[r].session
    <3>1. /\ held[r].id = r /\ held[r].scope = caller[r] /\ held[r].raw = StoreRawMode
          /\ held[r] # Nothing
      BY <2>4
      DEF CommitIngest, Consistent, HandlersAgree, HandlerAgrees, InFlight
    <3>2. CommittedSession(r).scope = caller[r]
      BY <2>4, CommittedTyped DEF CommitIngest
    <3>3. objects'[r] = held[r] /\ Visible(sessions', caller[r], held[r].session)
      BY <2>4, <3>2 DEF CommitIngest, Put, Visible
    <3>4. /\ pc'[r] \in {"ingested", "failed"}
          /\ held'[r] = held[r] /\ caller' = caller
      BY <1>0, <2>4 DEF TypeOK, CommitIngest, Goto
    <3> QED BY <3>1, <3>3, <3>4 DEF ObjectAgrees, Visible
  <2>5. CASE \E r \in Requests : CommitIngest(r)
    <3>1. PICK r \in Requests : CommitIngest(r)
      BY <2>5
    <3>2. /\ DOMAIN objects' = DOMAIN objects \cup {r}
          /\ DOMAIN sessions' = DOMAIN sessions \cup {held[r].session}
          /\ held[r].session \in DOMAIN sessions \/ held[r].session = r
      BY <3>1 DEF CommitIngest, Put, CommitApplies, IsNewSession, Visible
    <3>3. held[r].session = r => Belongs(r, r)'
      BY <2>4, <3>1, <3>2 DEF Belongs
    <3> QED BY <2>2, <2>3, <2>4, <3>1, <3>2, <3>3 DEF TablesAgree
  <2>6. CASE ~(\E r \in Requests : CommitIngest(r))
    BY <1>2, <2>2, <2>3, <2>6, OnlyCommitAdds DEF TablesAgree
  <2> QED BY <2>5, <2>6
<1> QED BY <1>1, <1>2

-----------------------------------------------------------------------------
(* The inductive invariant, and the first theorems.                        *)

LEMMA ConsistentInit ==
  ASSUME Init
  PROVE  Consistent
  BY DEF Init, Consistent, TypeOK, IsTable, EmptyTable, HandlersAgree, HandlerAgrees,
         TablesAgree, InFlight, InRetrieval

LEMMA ConsistentStep ==
  ASSUME Consistent, [Next]_vars
  PROVE  Consistent'
  BY TypeStep, HandlersStep, TablesStep DEF Consistent

(* In every reachable state what the handlers know agrees with the tables, *)
(* and the tables with each other.                                         *)
THEOREM AlwaysConsistent == Spec => []Consistent
  BY ConsistentInit, ConsistentStep, PTL DEF Spec

(* The tables and the handlers' state always have their types.             *)
THEOREM TypeCorrect == Spec => []TypeOK
<1>1. Consistent => TypeOK
  BY DEF Consistent
<1> QED BY <1>1, AlwaysConsistent, PTL

-----------------------------------------------------------------------------
(* The safety properties, each from an invariant that is inductive         *)
(* relative to Consistent.                                                 *)

-----------------------------------------------------------------------------
(* Rows of the secondary tables: EvidenceIsWhole and StaysInScope.         *)

(* The redaction rows of an object depend on what never changes in it.     *)
LEMMA RedactionRowsKept ==
  ASSUME Kept
  PROVE  \A o \in DOMAIN objects : RedactionRows(objects'[o]) = RedactionRows(objects[o])
  BY DEF Kept, RedactionRows

(* Rows that were there stay in agreement while nothing is lost.           *)
LEMMA OldRowsAgree ==
  ASSUME RowsAgree, Kept, redactions' = redactions, events \subseteq events',
         DOMAIN objects' = DOMAIN objects,
         \A e \in events' \ events : Visible(objects, e.scope, e.object)
  PROVE  RowsAgree'
<1>1. \A o \in DOMAIN objects : RedactionRows(objects'[o]) = RedactionRows(objects[o])
  BY RedactionRowsKept
<1>2. \A o \in DOMAIN objects' :
        /\ RedactionRows(objects'[o]) \subseteq redactions'
        /\ \E e \in events' : e.type = "object_ingested" /\ e.object = o
  BY <1>1 DEF RowsAgree
<1>3. \A row \in redactions' :
        /\ Visible(objects', row.scope, row.object)
        /\ row \in RedactionRows(objects'[row.object])
  BY <1>1 DEF RowsAgree, Visible, Kept
<1>4. \A e \in events' : Visible(objects', e.scope, e.object)
  BY DEF RowsAgree, Visible, Kept
<1> QED BY <1>2, <1>3, <1>4 DEF RowsAgree, Visible, RedactionRows

(* A commit brings its redaction rows and its event with the object.       *)
LEMMA CommittedRowsAgree ==
  ASSUME Consistent, RowsAgree, NEW r \in Requests, CommitIngest(r)
  PROVE  RowsAgree'
<1>0. /\ r \notin DOMAIN objects
      /\ held[r].id = r /\ held[r].scope = caller[r]
  BY Uncommitted
  DEF CommitIngest, Consistent, HandlersAgree, HandlerAgrees, InFlight
<1>1. /\ DOMAIN objects' = DOMAIN objects \cup {r} /\ objects'[r] = held[r]
      /\ \A o \in DOMAIN objects : objects'[o] = objects[o]
      /\ redactions' = redactions \cup RedactionRows(held[r])
      /\ events' = events \cup {EventOf(r, "object_ingested")}
  BY <1>0 DEF CommitIngest, Put
<1>2. /\ EventOf(r, "object_ingested").type = "object_ingested"
      /\ EventOf(r, "object_ingested").object = r
      /\ EventOf(r, "object_ingested").scope = caller[r]
  BY <1>0 DEF EventOf
<1>3. \A row \in RedactionRows(held[r]) : row.object = r /\ row.scope = caller[r]
  BY <1>0 DEF RedactionRows
<1>4. ASSUME NEW o \in DOMAIN objects'
      PROVE  /\ RedactionRows(objects'[o]) \subseteq redactions'
             /\ \E e \in events' : e.type = "object_ingested" /\ e.object = o
  <2>1. CASE o = r
    BY <1>1, <1>2, <2>1
  <2>2. CASE o \in DOMAIN objects
    BY <1>1, <2>2 DEF RowsAgree
  <2> QED BY <1>1, <2>1, <2>2
<1>5. ASSUME NEW row \in redactions'
      PROVE  /\ Visible(objects', row.scope, row.object)
             /\ row \in RedactionRows(objects'[row.object])
  BY <1>0, <1>1, <1>3, <1>5 DEF RowsAgree, Visible
<1>6. ASSUME NEW e \in events' PROVE Visible(objects', e.scope, e.object)
  BY <1>0, <1>1, <1>2, <1>6 DEF RowsAgree, Visible
<1> QED BY <1>4, <1>5, <1>6 DEF RowsAgree, Visible, RedactionRows

(* The audit event of a retrieval is about an object its caller sees.      *)
LEMMA AuditRowsAgree ==
  ASSUME Consistent, RowsAgree, NEW r \in Requests, AddEvent(r)
  PROVE  RowsAgree'
<1>1. Visible(objects, caller[r], held[r].id)
  BY DEF AddEvent, Consistent, HandlersAgree, HandlerAgrees, InRetrieval
<1>2. /\ EventOf(r, "object_retrieved").object = held[r].id
      /\ EventOf(r, "object_retrieved").scope = caller[r]
  BY DEF EventOf
<1>3. Kept /\ objects' = objects /\ redactions' = redactions
  BY DEF AddEvent, Kept
<1>4. /\ events \subseteq events'
      /\ \A e \in events' \ events : Visible(objects, e.scope, e.object)
  BY <1>1, <1>2 DEF AddEvent
<1> QED BY <1>3, <1>4, OldRowsAgree

LEMMA RowsStep ==
  ASSUME Consistent, RowsAgree, [Next]_vars
  PROVE  RowsAgree'
<1>1. CASE Restart
  BY <1>1 DEF Restart, EmptyTable, RowsAgree
<1>2. ASSUME NEW r \in Requests, CommitIngest(r) PROVE RowsAgree'
  BY <1>2, CommittedRowsAgree
<1>3. ASSUME NEW r \in Requests, AddEvent(r) PROVE RowsAgree'
  BY <1>3, AuditRowsAgree
<1>4. CASE ~Restart /\ \A r \in Requests : ~CommitIngest(r) /\ ~AddEvent(r)
  <2>1. Kept /\ DOMAIN objects' = DOMAIN objects
    BY <1>4, NothingIsLost, OnlyCommitAdds
  <2>2. redactions' = redactions /\ events' = events
    BY <1>4
    DEF Next, Refuse, Ingest, IngestNewSession, IngestIntoSession, Prepare, CommitFails,
        Retrieve, BeginRetrieve, UpdateObject, GetSession, GetSessionFails,
        UpdateSession, Abort, AllAnswered, vars, tables
  <2> QED BY <2>1, <2>2, OldRowsAgree
<1> QED BY <1>1, <1>2, <1>3, <1>4

(* The rows about an object always come and stay with it.                  *)
THEOREM RowsAlwaysAgree == Spec => []RowsAgree
<1>1. Init => RowsAgree
  BY DEF Init, RowsAgree, EmptyTable
<1> QED BY <1>1, AlwaysConsistent, RowsStep, PTL DEF Spec

(* No interleaving, fault or crash leaves half a piece of evidence.        *)
THEOREM EvidenceAlwaysWhole == Spec => []EvidenceIsWhole
<1>1. Consistent /\ RowsAgree => EvidenceIsWhole
  <2> SUFFICES ASSUME Consistent, RowsAgree PROVE EvidenceIsWhole
    OBVIOUS
  <2>1. \A o \in DOMAIN objects : objects[o].session \in DOMAIN sessions
    BY DEF Consistent, TablesAgree, ObjectAgrees, Visible
  <2>2. \A s \in DOMAIN sessions : \E o \in Requests : Belongs(s, o)
    BY DEF Consistent, TypeOK, IsTable, TablesAgree
  <2> QED BY <2>1, <2>2 DEF RowsAgree, EvidenceIsWhole, Visible
<1> QED BY <1>1, AlwaysConsistent, RowsAlwaysAgree, PTL

(* Nothing is ever stored, read or returned across tenants or workspaces.  *)
THEOREM AlwaysInScope == Spec => []StaysInScope
<1>1. Consistent /\ RowsAgree => StaysInScope
  BY DEF Consistent, TablesAgree, ObjectAgrees, HandlersAgree, HandlerAgrees,
         RowsAgree, StaysInScope
<1> QED BY <1>1, AlwaysConsistent, RowsAlwaysAgree, PTL

-----------------------------------------------------------------------------
(* Totals: TotalsNeverOverclaim and ExactUntilRetrieved.                   *)

BelongsAfter(s, o) == o \in DOMAIN objects' /\ objects'[o].session = s

(* What belongs to a session stays in it, and only a commit adds to it.    *)
LEMMA BelongsKept ==
  ASSUME Kept
  PROVE  \A s, o \in Requests : Belongs(s, o) => BelongsAfter(s, o)
  BY DEF Belongs, BelongsAfter, Kept

(* Totals of the rows in the tables and in the handlers' hands.            *)
Totals == TotalsNeverOverclaim /\ SnapshotsNeverOverclaim

(* A row that overclaims nothing keeps doing so while objects are added.   *)
LEMMA OldTotals ==
  ASSUME Consistent, Totals, Kept, NEW q \in Requests, NEW o \in Requests,
         pc'[q] = pc[q], held'[q] = held[q], snap'[q] = snap[q]
  PROVE  /\ pc'[q] = "updateSession" =>
              snap'[q].totals[o] <= IF BelongsAfter(held[q].session, o) THEN 1 ELSE 0
         /\ pc'[q] = "commit" =>
              snap'[q].totals[o]
                <= IF o = q \/ BelongsAfter(held[q].session, o) THEN 1 ELSE 0
<1>1. CASE pc[q] \in {"commit", "updateSession"}
  <2>1. held[q].session \in Requests /\ snap[q].totals[o] \in Nat
    BY <1>1, HandlersHold DEF InFlight, Object, Session
  <2>2. Belongs(held[q].session, o) => BelongsAfter(held[q].session, o)
    BY <2>1, BelongsKept
  <2> QED BY <1>1, <2>1, <2>2 DEF Totals, SnapshotsNeverOverclaim
<1>2. CASE pc[q] \notin {"commit", "updateSession"}
  BY <1>2
<1> QED BY <1>1, <1>2

(* The row that a commit stores counts what belongs to it, and its object. *)
LEMMA CommittedTotals ==
  ASSUME Consistent, Totals, NEW r \in Requests, CommitIngest(r), NEW o \in Requests
  PROVE  CommittedSession(r).totals[o]
           <= IF o = r \/ Belongs(held[r].session, o) THEN 1 ELSE 0
<1>0. pc[r] = "commit" /\ snap[r] \in Session /\ held[r].session \in Requests
  BY CommittedTyped DEF CommitIngest
<1>1. CASE Adapter = "memory" \/ IsNewSession(r)
  BY <1>0, <1>1 DEF CommittedSession, Totals, SnapshotsNeverOverclaim
<1>2. CASE ~(Adapter = "memory" \/ IsNewSession(r))
  <2> DEFINE s == held[r].session
  <2>1. s \in DOMAIN sessions /\ sessions[s] \in Session
    BY <1>2 DEF CommitIngest, CommitApplies, Visible, Consistent, TypeOK, IsTable
  <2>2. CommittedSession(r) = AddTotals(sessions[s], r)
    BY <1>2 DEF CommittedSession
  <2>3. sessions[s].totals[o] <= IF Belongs(s, o) THEN 1 ELSE 0
    BY <2>1 DEF Totals, TotalsNeverOverclaim, Counted
  <2>4. CASE o = r
    <3>1. ~Belongs(s, r)
      BY Uncommitted DEF CommitIngest, Belongs
    <3>2. AddTotals(sessions[s], r).totals[r] = sessions[s].totals[r] + 1
      BY <2>1, AddTotalsKeeps
    <3>3. sessions[s].totals[r] \in Nat
      BY <2>1 DEF Session
    <3> QED BY <2>2, <2>3, <2>4, <3>1, <3>2, <3>3
  <2>5. CASE o # r
    BY <2>1, <2>2, <2>3, <2>5, AddTotalsKeeps
  <2> QED BY <2>4, <2>5
<1> QED BY <1>1, <1>2

LEMMA TotalsStep ==
  ASSUME Consistent, Totals, [Next]_vars
  PROVE  Totals'
<1> USE DEF Goto
<1>0. TypeOK
  BY DEF Consistent
<1>1. CASE Restart
  BY <1>0, <1>1
  DEF Restart, EmptyTable, Totals, TotalsNeverOverclaim, SnapshotsNeverOverclaim,
      InFlight, TypeOK, Answers
<1>2. CASE UNCHANGED vars
  BY <1>2
  DEF vars, Totals, TotalsNeverOverclaim, SnapshotsNeverOverclaim, Counted, Belongs
<1>3. ASSUME ~Restart,
             NEW r \in Requests, Refuse(r) \/ Ingest(r) \/ Retrieve(r) \/ Abort(r)
      PROVE  Totals'
  <2>1. Kept /\ \A s, o \in Requests : Belongs(s, o) => BelongsAfter(s, o)
    BY <1>3, NothingIsLost, BelongsKept
  <2>2. \A q \in Requests \ {r} :
          pc'[q] = pc[q] /\ held'[q] = held[q] /\ snap'[q] = snap[q]
    BY <1>0, <1>3
    DEF TypeOK, Refuse, Ingest, IngestNewSession, IngestIntoSession, Prepare,
        CommitIngest, CommitFails, Retrieve, BeginRetrieve, UpdateObject, GetSession,
        GetSessionFails, UpdateSession, AddEvent, Abort
  <2>3. ASSUME NEW o \in Requests
        PROVE  /\ pc'[r] = "updateSession" =>
                    snap'[r].totals[o]
                      <= IF BelongsAfter(held'[r].session, o) THEN 1 ELSE 0
               /\ pc'[r] = "commit" =>
                    snap'[r].totals[o]
                      <= IF o = r \/ BelongsAfter(held'[r].session, o) THEN 1 ELSE 0
    <3>1. CASE IngestNewSession(r)
      <4>1. /\ snap'[r] = AddTotals(Fresh(r), r) /\ pc'[r] = "commit"
            /\ Fresh(r) \in Session
        BY <1>0, <3>1, BuiltTyped, CountTyped DEF IngestNewSession, Prepare, TypeOK
      <4> QED BY <4>1, AddTotalsKeeps DEF Fresh
    <3>2. CASE IngestIntoSession(r)
      <4>1. PICK s \in DOMAIN sessions, text \in Texts :
              Visible(sessions, caller[r], s) /\ Prepare(r, s, sessions[s], text)
        BY <3>2 DEF IngestIntoSession
      <4>2. s \in Requests /\ sessions[s] \in Session /\ pc[r] = "idle"
        BY <1>0, <4>1 DEF TypeOK, IsTable, Prepare
      <4>3. /\ snap'[r] = AddTotals(sessions[s], r) /\ pc'[r] = "commit"
            /\ held'[r].session = s
        BY <1>0, <4>1, <4>2 DEF Prepare, TypeOK, NewObject
      <4>4. /\ sessions[s].totals[o] <= IF Belongs(s, o) THEN 1 ELSE 0
            /\ sessions[s].totals[o] \in Nat
            /\ ~Belongs(s, r)
        BY <4>2, Uncommitted
        DEF Totals, TotalsNeverOverclaim, Counted, Session, Belongs
      <4>5. Belongs(s, o) => BelongsAfter(s, o)
        BY <2>1, <4>2
      <4> QED BY <4>2, <4>3, <4>4, <4>5, AddTotalsKeeps
    <3>3. CASE GetSession(r)
      <4> DEFINE s == held[r].session
      <4>1. /\ s \in DOMAIN sessions /\ s \in Requests /\ sessions[s] \in Session
            /\ held'[r] = held[r] /\ pc'[r] = "updateSession"
            /\ snap'[r] = CountRetrieval(sessions[s])
        BY <1>0, <3>3 DEF GetSession, Visible, TypeOK, IsTable
      <4>2. snap'[r].totals = sessions[s].totals
        BY <4>1, CountKeeps
      <4>3. sessions[s].totals[o] <= IF Belongs(s, o) THEN 1 ELSE 0
        BY <4>1 DEF Totals, TotalsNeverOverclaim, Counted
      <4>4. /\ Belongs(s, o) => BelongsAfter(s, o)
            /\ sessions[s].totals[o] \in Nat
        BY <2>1, <4>1 DEF Session
      <4> QED BY <4>1, <4>2, <4>3, <4>4
    <3>4. CASE \/ Refuse(r) \/ CommitIngest(r) \/ CommitFails(r) \/ BeginRetrieve(r)
               \/ UpdateObject(r) \/ GetSessionFails(r) \/ UpdateSession(r)
               \/ AddEvent(r) \/ Abort(r)
      <4>1. pc'[r] \notin {"commit", "updateSession"}
        BY <1>0, <3>4
        DEF TypeOK, Refuse, CommitIngest, CommitFails, BeginRetrieve, UpdateObject,
            GetSessionFails, UpdateSession, AddEvent, Abort
      <4> QED BY <4>1
    <3> QED BY <1>3, <3>1, <3>2, <3>3, <3>4 DEF Ingest, Retrieve
  <2>4. SnapshotsNeverOverclaim'
    <3>1. ASSUME NEW q \in Requests \ {r}, NEW o \in Requests
          PROVE  /\ pc'[q] = "updateSession" =>
                      snap'[q].totals[o]
                        <= IF BelongsAfter(held'[q].session, o) THEN 1 ELSE 0
                 /\ pc'[q] = "commit" =>
                      snap'[q].totals[o]
                        <= IF o = q \/ BelongsAfter(held'[q].session, o) THEN 1 ELSE 0
      BY <2>1, <2>2, OldTotals
    <3> QED BY <2>3, <3>1 DEF SnapshotsNeverOverclaim, Belongs, BelongsAfter
  <2>5. ASSUME NEW s \in DOMAIN sessions', NEW o \in Requests
        PROVE  sessions'[s].totals[o] <= IF BelongsAfter(s, o) THEN 1 ELSE 0
    <3>0. s \in Requests
      BY ConsistentStep, <1>3 DEF Next, Consistent, TypeOK, IsTable
    <3>1. CASE s \in DOMAIN sessions /\ sessions'[s] = sessions[s]
      <4>1. sessions[s].totals[o] \in Nat
        BY <1>0, <3>1 DEF TypeOK, IsTable, Session
      <4> QED
        BY <2>1, <3>0, <3>1, <4>1 DEF Totals, TotalsNeverOverclaim, Counted
    <3>2. CASE CommitIngest(r) /\ s = held[r].session
      <4>1. /\ sessions'[s] = CommittedSession(r) /\ BelongsAfter(s, r)
            /\ CommittedSession(r).totals[o] \in Nat
        BY <3>2, CommittedTyped DEF CommitIngest, Put, BelongsAfter, Session
      <4> QED BY <2>1, <3>0, <3>2, <4>1, CommittedTotals
    <3>3. CASE UpdateSession(r) /\ s = held[r].session /\ sessions'[s] = snap[r]
      <4>1. snap[r].totals[o] \in Nat /\ pc[r] = "updateSession"
        BY <3>3, HandlersHold DEF UpdateSession, Session
      <4> QED
        BY <2>1, <3>0, <3>3, <4>1 DEF Totals, SnapshotsNeverOverclaim
    <3>4. \/ s \in DOMAIN sessions /\ sessions'[s] = sessions[s]
          \/ CommitIngest(r) /\ s = held[r].session
          \/ UpdateSession(r) /\ s = held[r].session /\ sessions'[s] = snap[r]
      BY <1>3
      DEF Refuse, Ingest, IngestNewSession, IngestIntoSession, Prepare, CommitIngest,
          CommitFails, Retrieve, BeginRetrieve, UpdateObject, GetSession,
          GetSessionFails, UpdateSession, AddEvent, Abort, tables, Put
    <3> QED BY <3>1, <3>2, <3>3, <3>4
  <2> QED BY <2>4, <2>5 DEF Totals, TotalsNeverOverclaim, Counted, Belongs, BelongsAfter
<1> QED BY <1>1, <1>2, <1>3 DEF Next, AllAnswered

(* No interleaving makes a session count an object twice or a foreign one. *)
THEOREM TotalsSafe == Spec => []TotalsNeverOverclaim
<1>1. Init => Totals
  BY DEF Init, EmptyTable, Totals, TotalsNeverOverclaim, SnapshotsNeverOverclaim
<1>2. Totals => TotalsNeverOverclaim
  BY DEF Totals
<1> QED BY <1>1, <1>2, AlwaysConsistent, TotalsStep, PTL DEF Spec

(* The step of a handler leaves the others where they are.                 *)
LEMMA OthersRest ==
  ASSUME Consistent, NEW r \in Requests,
         Refuse(r) \/ Ingest(r) \/ Retrieve(r) \/ Abort(r)
  PROVE  /\ caller' = caller
         /\ \A q \in Requests \ {r} :
              pc'[q] = pc[q] /\ held'[q] = held[q] /\ snap'[q] = snap[q]
  BY DEF Consistent, TypeOK, Refuse, Ingest, IngestNewSession, IngestIntoSession,
         Prepare, Goto, CommitIngest, CommitFails, Retrieve, BeginRetrieve,
         UpdateObject, GetSession, GetSessionFails, UpdateSession, AddEvent, Abort

(* Only these handlers' steps write a session row, and what they write.    *)
LEMMA SessionWrites ==
  ASSUME NEW r \in Requests, Refuse(r) \/ Ingest(r) \/ Retrieve(r) \/ Abort(r),
         NEW s \in DOMAIN sessions'
  PROVE  \/ s \in DOMAIN sessions /\ sessions'[s] = sessions[s]
         \/ /\ CommitIngest(r) /\ s = held[r].session
            /\ sessions'[s] = CommittedSession(r)
         \/ UpdateSession(r) /\ s = held[r].session /\ sessions'[s] = snap[r]
  BY DEF Refuse, Ingest, IngestNewSession, IngestIntoSession, Prepare, CommitIngest,
         CommitFails, Retrieve, BeginRetrieve, UpdateObject, GetSession,
         GetSessionFails, UpdateSession, AddEvent, Abort, tables, Put

(* A commit adds its object to its session and nothing else to any.        *)
LEMMA CommitBelongs ==
  ASSUME Consistent, NEW r \in Requests, CommitIngest(r)
  PROVE  \A s, o \in Requests :
           BelongsAfter(s, o) <=> Belongs(s, o) \/ (o = r /\ s = held[r].session)
<1>1. r \notin DOMAIN objects
  BY Uncommitted DEF CommitIngest
<1> QED BY <1>1 DEF CommitIngest, Put, Belongs, BelongsAfter

(* Every other step leaves the sessions' objects alone.                    *)
LEMMA OthersBelong ==
  ASSUME Consistent, [Next]_vars, ~Restart, ~(\E r \in Requests : CommitIngest(r))
  PROVE  \A s, o \in Requests : BelongsAfter(s, o) <=> Belongs(s, o)
  BY NothingIsLost, OnlyCommitAdds DEF Kept, Belongs, BelongsAfter

Exact == ExactUntilRetrieved /\ StaleRowsAreMarked

(* A committed row that has not been retrieved from counts exactly.        *)
LEMMA CommittedExact ==
  ASSUME Adapter = "postgres", Consistent, Exact,
         NEW r \in Requests, CommitIngest(r), NEW o \in Requests,
         CommittedSession(r).retrieved = 0
  PROVE  CommittedSession(r).totals[o]
           = IF BelongsAfter(held[r].session, o) THEN 1 ELSE 0
<1> DEFINE s == held[r].session
<1>0. /\ pc[r] = "commit" /\ s \in Requests
      /\ BelongsAfter(s, o) <=> Belongs(s, o) \/ o = r
      /\ ~Belongs(s, r) /\ r \notin DOMAIN sessions
  BY CommittedTyped, CommitBelongs, Uncommitted DEF CommitIngest, Belongs
<1>1. CASE IsNewSession(r)
  <2>1. CommittedSession(r) = AddTotals(Fresh(r), r) /\ Fresh(r) \in Session
    BY <1>0, <1>1, BuiltTyped
    DEF CommittedSession, Exact, StaleRowsAreMarked, Consistent
  <2>2. ~Belongs(s, o)
    BY <1>0, <1>1
    DEF IsNewSession, Belongs, Consistent, TablesAgree, ObjectAgrees, Visible
  <2> QED BY <1>0, <2>1, <2>2, AddTotalsKeeps DEF Fresh
<1>2. CASE ~IsNewSession(r)
  <2>1. s \in DOMAIN sessions /\ sessions[s] \in Session
    BY <1>2 DEF CommitIngest, CommitApplies, Visible, Consistent, TypeOK, IsTable
  <2>2. CommittedSession(r) = AddTotals(sessions[s], r)
    BY <1>2 DEF CommittedSession
  <2>3. sessions[s].retrieved = 0
    BY <2>1, <2>2, AddTotalsKeeps
  <2>4. \A p \in Requests : sessions[s].totals[p] = IF Belongs(s, p) THEN 1 ELSE 0
    BY <2>1, <2>3 DEF Exact, ExactUntilRetrieved, Counted
  <2> QED BY <1>0, <2>1, <2>2, <2>4, AddTotalsKeeps
<1> QED BY <1>1, <1>2

LEMMA MarkedStep ==
  ASSUME Consistent, Exact, NEW r \in Requests,
         Refuse(r) \/ Ingest(r) \/ Retrieve(r) \/ Abort(r)
  PROVE  StaleRowsAreMarked'
<1>0. TypeOK
  BY DEF Consistent
<1>1. ASSUME NEW q \in Requests \ {r}
      PROVE  /\ pc'[q] = "updateSession" => snap'[q].retrieved > 0
             /\ pc'[q] = "commit" /\ IsNewSession(q)' =>
                  snap'[q] = AddTotals(Fresh(q)', q)
  BY OthersRest DEF Exact, StaleRowsAreMarked, IsNewSession, Fresh
<1>2. /\ pc'[r] = "updateSession" => snap'[r].retrieved > 0
      /\ pc'[r] = "commit" /\ IsNewSession(r)' => snap'[r] = AddTotals(Fresh(r)', r)
  <2>1. CASE IngestNewSession(r)
    BY <1>0, <2>1, OthersRest DEF IngestNewSession, Prepare, Goto, TypeOK, Fresh
  <2>2. CASE IngestIntoSession(r)
    <3>1. PICK s \in DOMAIN sessions, text \in Texts : Prepare(r, s, sessions[s], text)
      BY <2>2 DEF IngestIntoSession
    <3>2. r \notin DOMAIN sessions
      BY <3>1, Uncommitted DEF Prepare
    <3> QED
      BY <1>0, <3>1, <3>2 DEF Prepare, Goto, TypeOK, NewObject, IsNewSession
  <2>3. CASE GetSession(r)
    <3>1. sessions[held[r].session] \in Session
      BY <1>0, <2>3 DEF GetSession, Visible, TypeOK, IsTable
    <3>2. /\ snap'[r] = CountRetrieval(sessions[held[r].session])
          /\ pc'[r] = "updateSession"
      BY <1>0, <2>3 DEF GetSession, Goto, TypeOK
    <3>3. snap'[r].retrieved > 0
      BY <3>1, <3>2, CountKeeps DEF Session
    <3> QED BY <3>2, <3>3
  <2>4. CASE \/ Refuse(r) \/ CommitIngest(r) \/ CommitFails(r) \/ BeginRetrieve(r)
             \/ UpdateObject(r) \/ GetSessionFails(r) \/ UpdateSession(r)
             \/ AddEvent(r) \/ Abort(r)
    <3>1. pc'[r] \notin {"commit", "updateSession"}
      BY <1>0, <2>4
      DEF TypeOK, Goto, Refuse, CommitIngest, CommitFails, BeginRetrieve, UpdateObject,
          GetSessionFails, UpdateSession, AddEvent, Abort
    <3> QED BY <3>1
  <2> QED BY <2>1, <2>2, <2>3, <2>4 DEF Ingest, Retrieve
<1> QED BY <1>1, <1>2 DEF StaleRowsAreMarked

LEMMA ExactStep ==
  ASSUME Adapter = "postgres", Consistent, Exact, [Next]_vars
  PROVE  Exact'
<1>0. ~Restart
  BY DEF Restart
<1>1. CASE UNCHANGED vars
  BY <1>1
  DEF vars, Exact, ExactUntilRetrieved, StaleRowsAreMarked, Counted, Belongs, Fresh,
      IsNewSession
<1>2. ASSUME NEW r \in Requests, Refuse(r) \/ Ingest(r) \/ Retrieve(r) \/ Abort(r)
      PROVE  Exact'
  <2>1. ASSUME NEW s \in DOMAIN sessions', NEW o \in Requests,
               sessions'[s].retrieved = 0
        PROVE  sessions'[s].totals[o] = IF BelongsAfter(s, o) THEN 1 ELSE 0
    <3>0. s \in Requests
      BY ConsistentStep, <1>2 DEF Next, Consistent, TypeOK, IsTable
    <3>1. CASE /\ CommitIngest(r) /\ s = held[r].session
               /\ sessions'[s] = CommittedSession(r)
      BY <2>1, <3>1, CommittedExact
    <3>2. CASE UpdateSession(r) /\ s = held[r].session /\ sessions'[s] = snap[r]
      <4>1. snap[r].retrieved > 0 /\ snap[r].retrieved \in Nat
        BY <3>2, HandlersHold DEF UpdateSession, Exact, StaleRowsAreMarked, Session
      <4> QED BY <2>1, <3>2, <4>1
    <3>3. CASE /\ s \in DOMAIN sessions /\ sessions'[s] = sessions[s]
               /\ ~(CommitIngest(r) /\ s = held[r].session)
      <4>1. BelongsAfter(s, o) <=> Belongs(s, o)
        <5>1. CASE CommitIngest(r)
          BY <3>0, <3>3, <5>1, CommitBelongs
        <5>2. CASE ~(\E q \in Requests : CommitIngest(q))
          BY <1>0, <3>0, <5>2, OthersBelong
        <5>3. ASSUME NEW q \in Requests, CommitIngest(q) PROVE q = r
          BY <1>2, <5>3, OthersRest
          DEF CommitIngest, Goto, Consistent, TypeOK
        <5> QED BY <5>1, <5>2, <5>3
      <4> QED BY <2>1, <3>3, <4>1 DEF Exact, ExactUntilRetrieved, Counted
    <3>4. CASE /\ s \in DOMAIN sessions /\ sessions'[s] = sessions[s]
               /\ CommitIngest(r) /\ s = held[r].session
      BY <2>1, <3>1, <3>4 DEF CommitIngest, Put
    <3> QED BY <1>2, <3>1, <3>2, <3>3, <3>4, SessionWrites
  <2>2. ExactUntilRetrieved'
    BY <2>1 DEF ExactUntilRetrieved, Counted, Belongs, BelongsAfter
  <2> QED BY <1>2, <2>2, MarkedStep DEF Exact
<1> QED BY <1>0, <1>1, <1>2 DEF Next, AllAnswered

(* Over Postgres ingests alone, however many run at once, never cost a     *)
(* session an object: until it is retrieved from, its totals are exact.    *)
THEOREM ExactSafe ==
  ASSUME Adapter = "postgres"
  PROVE  Spec => []ExactUntilRetrieved
<1>1. Init => Exact
  BY DEF Init, EmptyTable, Exact, ExactUntilRetrieved, StaleRowsAreMarked
<1>2. Exact => ExactUntilRetrieved
  BY DEF Exact
<1>3. Consistent /\ Exact /\ [Next]_vars => Exact'
  BY ExactStep
<1> QED BY <1>1, <1>2, <1>3, AlwaysConsistent, PTL DEF Spec

-----------------------------------------------------------------------------
(* RetrievalsNeverOvercounted: lost updates never make a counter too high. *)
(* A counter is bounded by the number of requests that have read its row   *)
(* in order to count; that number only grows, and a request joins it with  *)
(* the very step that reads the row.                                       *)


(* A set of requests is finite; the larger one has no fewer members.       *)
LEMMA RequestSets ==
  /\ \A S \in SUBSET Requests : IsFiniteSet(S) /\ Cardinality(S) \in Nat
  /\ \A S, T \in SUBSET Requests : S \subseteq T => Cardinality(S) <= Cardinality(T)
<1>1. ASSUME NEW S \in SUBSET Requests PROVE IsFiniteSet(S) /\ Cardinality(S) \in Nat
  BY <1>1, RequestsFinite, FS_Subset, FS_CardinalityType
<1>2. ASSUME NEW S \in SUBSET Requests, NEW T \in SUBSET Requests, S \subseteq T
      PROVE  Cardinality(S) <= Cardinality(T)
  BY <1>1, <1>2, FS_Subset
<1> QED BY <1>1, <1>2

(* One more request makes the set larger by one.                           *)
LEMMA OneMore ==
  ASSUME NEW S \in SUBSET Requests, NEW T \in SUBSET Requests, NEW r \in T \ S,
         S \subseteq T
  PROVE  Cardinality(S) + 1 <= Cardinality(T)
<1>1. IsFiniteSet(S) /\ r \notin S /\ Cardinality(S) \in Nat
  BY RequestSets
<1>2. Cardinality(S \cup {r}) = Cardinality(S) + 1
  BY <1>1, FS_AddElement
<1>3. Cardinality(S \cup {r}) <= Cardinality(T)
  <2>1. S \cup {r} \in SUBSET Requests /\ S \cup {r} \subseteq T
    OBVIOUS
  <2> QED BY <2>1, RequestSets
<1> QED BY <1>2, <1>3

(* The readers of a row after a step.                                      *)
RetrieversAfter(o) ==
  {q \in Requests : /\ held'[q] # Nothing /\ held'[q].id # q
                    /\ held'[q].id = o}

SessionReadersAfter(s) ==
  {q \in Requests : /\ held'[q] # Nothing /\ held'[q].id # q
                    /\ held'[q].session = s
                    /\ pc'[q] \notin {"updateObject", "getSession"}}

(* A request stays with the object it holds, and never reads again.        *)
LEMMA HeldStays ==
  ASSUME Consistent, [Next]_vars, NEW q \in Requests, held[q] # Nothing
  PROVE  /\ held'[q] = held[q]
         /\ pc[q] \notin {"updateObject", "getSession"} =>
              pc'[q] \notin {"updateObject", "getSession"}
<1>0. pc[q] # "idle" /\ TypeOK
  BY DEF Consistent, HandlersAgree, HandlerAgrees
<1>1. CASE Restart
  BY <1>0, <1>1 DEF Restart, TypeOK
<1>2. CASE UNCHANGED vars
  BY <1>2 DEF vars
<1>3. ASSUME NEW r \in Requests, Refuse(r) \/ Ingest(r) \/ Retrieve(r) \/ Abort(r)
      PROVE  /\ held'[q] = held[q]
             /\ pc[q] \notin {"updateObject", "getSession"} =>
                  pc'[q] \notin {"updateObject", "getSession"}
  <2>1. CASE q # r
    BY <1>3, <2>1, OthersRest
  <2>2. CASE q = r
    BY <1>0, <1>3, <2>2
    DEF TypeOK, Refuse, Ingest, IngestNewSession, IngestIntoSession, Prepare, Goto,
        CommitIngest, CommitFails, Retrieve, BeginRetrieve, UpdateObject, GetSession,
        GetSessionFails, UpdateSession, AddEvent, Abort
  <2> QED BY <2>1, <2>2
<1> QED BY <1>1, <1>2, <1>3 DEF Next, AllAnswered

(* So the readers of a row only become more.                               *)
LEMMA ReadersGrow ==
  ASSUME Consistent, [Next]_vars
  PROVE  /\ \A o \in Requests :
              /\ Retrievers(o) \subseteq RetrieversAfter(o)
              /\ Cardinality(Retrievers(o)) <= Cardinality(RetrieversAfter(o))
              /\ Cardinality(Retrievers(o)) \in Nat
              /\ Cardinality(RetrieversAfter(o)) \in Nat
         /\ \A s \in Requests :
              /\ SessionReaders(s) \subseteq SessionReadersAfter(s)
              /\ Cardinality(SessionReaders(s)) <= Cardinality(SessionReadersAfter(s))
              /\ Cardinality(SessionReaders(s)) \in Nat
              /\ Cardinality(SessionReadersAfter(s)) \in Nat
<1>1. \A o \in Requests : Retrievers(o) \subseteq RetrieversAfter(o)
  BY HeldStays DEF Retrievers, RetrieversAfter, IsRetrieval
<1>2. \A s \in Requests : SessionReaders(s) \subseteq SessionReadersAfter(s)
  BY HeldStays
  DEF SessionReaders, SessionRetrievers, SessionReadersAfter, IsRetrieval
<1>3. \A o \in Requests : /\ Retrievers(o) \in SUBSET Requests
                          /\ RetrieversAfter(o) \in SUBSET Requests
                          /\ SessionReaders(o) \in SUBSET Requests
                          /\ SessionReadersAfter(o) \in SUBSET Requests
  BY DEF Retrievers, RetrieversAfter, SessionReaders, SessionRetrievers,
         SessionReadersAfter
<1> QED BY <1>1, <1>2, <1>3, RequestSets

CountsReaders == RowsCountReaders /\ HandlersCountReaders

(* A handler that rests holds a row that still counts readers only.        *)
LEMMA OthersCount ==
  ASSUME Consistent, CountsReaders, [Next]_vars, NEW q \in Requests,
         pc'[q] = pc[q], held'[q] = held[q], snap'[q] = snap[q]
  PROVE  /\ pc'[q] = "commit" => held'[q].retrieved = 0
         /\ pc'[q] = "updateObject" =>
              held'[q].retrieved <= Cardinality(RetrieversAfter(held'[q].id))
         /\ pc'[q] \in {"commit", "updateSession"} =>
              snap'[q].retrieved <= Cardinality(SessionReadersAfter(held'[q].session))
<1>1. pc[q] \in InFlight => held[q] \in Object
  BY HandlersHold
<1>2. pc[q] \in {"commit", "updateSession"} => snap[q] \in Session
  BY HandlersHold
<1>3. CASE pc[q] = "updateObject"
  <2>1. held[q].id \in Requests /\ held[q].retrieved \in Nat
    BY <1>1, <1>3 DEF InFlight, Object
  <2> QED
    BY <1>3, <2>1, ReadersGrow DEF CountsReaders, HandlersCountReaders
<1>4. CASE pc[q] \in {"commit", "updateSession"}
  <2>1. held[q].session \in Requests /\ snap[q].retrieved \in Nat
    BY <1>1, <1>2, <1>4 DEF InFlight, Object, Session
  <2> QED
    BY <1>4, <2>1, ReadersGrow DEF CountsReaders, HandlersCountReaders
<1> QED BY <1>3, <1>4

(* The handler that moves holds a row that counts readers only.            *)
LEMMA MoverCounts ==
  ASSUME Consistent, CountsReaders, NEW r \in Requests,
         Refuse(r) \/ Ingest(r) \/ Retrieve(r) \/ Abort(r)
  PROVE  /\ pc'[r] = "commit" => held'[r].retrieved = 0
         /\ pc'[r] = "updateObject" =>
              held'[r].retrieved <= Cardinality(RetrieversAfter(held'[r].id))
         /\ pc'[r] \in {"commit", "updateSession"} =>
              snap'[r].retrieved <= Cardinality(SessionReadersAfter(held'[r].session))
<1>0. TypeOK /\ Next
  BY DEF Consistent, Next
<1>1. CASE IngestNewSession(r)
  <2>1. /\ pc'[r] = "commit" /\ snap'[r] = AddTotals(Fresh(r), r)
        /\ held'[r].session = r /\ held'[r].retrieved = 0 /\ Fresh(r) \in Session
    BY <1>0, <1>1, BuiltTyped DEF IngestNewSession, Prepare, Goto, TypeOK, NewObject
  <2>2. snap'[r].retrieved = 0
    BY <2>1, AddTotalsKeeps DEF Fresh
  <2> QED BY <1>0, <2>1, <2>2, ReadersGrow
<1>2. CASE IngestIntoSession(r)
  <2>1. PICK s \in DOMAIN sessions, text \in Texts : Prepare(r, s, sessions[s], text)
    BY <1>2 DEF IngestIntoSession
  <2>2. /\ pc'[r] = "commit" /\ snap'[r] = AddTotals(sessions[s], r)
        /\ held'[r].session = s /\ held'[r].retrieved = 0
        /\ s \in Requests /\ sessions[s] \in Session
    BY <1>0, <2>1 DEF Prepare, Goto, TypeOK, IsTable, NewObject
  <2>3. snap'[r].retrieved = sessions[s].retrieved /\ sessions[s].retrieved \in Nat
    BY <2>2, AddTotalsKeeps DEF Session
  <2>4. sessions[s].retrieved <= Cardinality(SessionReaders(s))
    BY DEF CountsReaders, RowsCountReaders
  <2> QED BY <1>0, <2>2, <2>3, <2>4, ReadersGrow
<1>3. CASE BeginRetrieve(r)
  <2>1. PICK o \in DOMAIN objects :
          /\ pc[r] = "idle"
          /\ held' = [held EXCEPT ![r] = CountRetrieval(objects[o])]
          /\ pc' = [pc EXCEPT ![r] = "updateObject"]
    BY <1>3 DEF BeginRetrieve, Goto
  <2>2. /\ o \in Requests /\ objects[o] \in Object /\ objects[o].id = o
        /\ o # r /\ held[r] = Nothing
    BY <1>0, <2>1, Uncommitted
    DEF Consistent, TypeOK, IsTable, TablesAgree, ObjectAgrees, HandlersAgree,
        HandlerAgrees
  <2>3. /\ pc'[r] = "updateObject" /\ held'[r] = CountRetrieval(objects[o])
        /\ held'[r].id = o /\ held'[r] # Nothing
        /\ held'[r].retrieved = objects[o].retrieved + 1
    BY <1>0, <2>1, <2>2, CountTyped, CountKeeps, NothingIsNoRow DEF TypeOK
  <2>4. /\ Retrievers(o) \subseteq RetrieversAfter(o)
        /\ r \in RetrieversAfter(o) \ Retrievers(o)
    BY <1>0, <2>2, <2>3, ReadersGrow DEF Retrievers, IsRetrieval, RetrieversAfter
  <2>5. Cardinality(Retrievers(o)) + 1 <= Cardinality(RetrieversAfter(o))
    <3>1. Retrievers(o) \in SUBSET Requests /\ RetrieversAfter(o) \in SUBSET Requests
      BY DEF Retrievers, RetrieversAfter
    <3> QED BY <2>4, <3>1, OneMore
  <2>6. /\ objects[o].retrieved <= Cardinality(Retrievers(o))
        /\ objects[o].retrieved \in Nat
        /\ Cardinality(Retrievers(o)) \in Nat /\ Cardinality(RetrieversAfter(o)) \in Nat
    BY <1>0, <2>2, ReadersGrow DEF CountsReaders, RowsCountReaders, Object
  <2>7. held'[r].retrieved <= Cardinality(RetrieversAfter(o))
    BY <2>3, <2>5, <2>6
  <2> QED BY <2>3, <2>7
<1>4. CASE GetSession(r)
  <2> DEFINE s == held[r].session
  <2>1. /\ pc[r] = "getSession" /\ pc'[r] = "updateSession" /\ held'[r] = held[r]
        /\ s \in DOMAIN sessions /\ s \in Requests /\ sessions[s] \in Session
        /\ snap'[r] = CountRetrieval(sessions[s])
    BY <1>0, <1>4 DEF GetSession, Goto, Visible, TypeOK, IsTable
  <2>2. held[r] # Nothing /\ held[r].id # r
    <3>1. held[r].id \in DOMAIN objects /\ held[r] # Nothing
      BY <2>1
      DEF Consistent, HandlersAgree, HandlerAgrees, InFlight, InRetrieval, Visible
    <3> QED BY <2>1, <3>1, Uncommitted
  <2>3. snap'[r].retrieved = sessions[s].retrieved + 1
    BY <2>1, CountKeeps
  <2>4. /\ SessionReaders(s) \subseteq SessionReadersAfter(s)
        /\ r \in SessionReadersAfter(s) \ SessionReaders(s)
    BY <1>0, <2>1, <2>2, ReadersGrow
    DEF SessionReaders, SessionRetrievers, SessionReadersAfter
  <2>5. Cardinality(SessionReaders(s)) + 1 <= Cardinality(SessionReadersAfter(s))
    <3>1. /\ SessionReaders(s) \in SUBSET Requests
          /\ SessionReadersAfter(s) \in SUBSET Requests
      BY DEF SessionReaders, SessionRetrievers, SessionReadersAfter
    <3> QED BY <2>4, <3>1, OneMore
  <2>6. /\ sessions[s].retrieved <= Cardinality(SessionReaders(s))
        /\ sessions[s].retrieved \in Nat
        /\ Cardinality(SessionReaders(s)) \in Nat
        /\ Cardinality(SessionReadersAfter(s)) \in Nat
    BY <1>0, <2>1, ReadersGrow DEF CountsReaders, RowsCountReaders, Session
  <2>7. snap'[r].retrieved <= Cardinality(SessionReadersAfter(s))
    BY <2>3, <2>5, <2>6
  <2> QED BY <2>1, <2>7
<1>5. CASE \/ Refuse(r) \/ CommitIngest(r) \/ CommitFails(r) \/ UpdateObject(r)
           \/ GetSessionFails(r) \/ UpdateSession(r) \/ AddEvent(r) \/ Abort(r)
  <2>1. pc'[r] \notin {"updateObject", "commit", "updateSession"}
    BY <1>0, <1>5
    DEF TypeOK, Goto, Refuse, CommitIngest, CommitFails, UpdateObject,
        GetSessionFails, UpdateSession, AddEvent, Abort
  <2> QED BY <2>1
<1> QED BY <1>1, <1>2, <1>3, <1>4, <1>5 DEF Ingest, Retrieve

(* What a commit or an UpdateObject writes is bounded as it was in hand.   *)
LEMMA ObjectsCount ==
  ASSUME Consistent, CountsReaders, NEW r \in Requests,
         Refuse(r) \/ Ingest(r) \/ Retrieve(r) \/ Abort(r),
         NEW o \in DOMAIN objects'
  PROVE  objects'[o].retrieved <= Cardinality(RetrieversAfter(o))
<1>0. /\ TypeOK /\ Next /\ o \in Requests
      /\ Cardinality(Retrievers(o)) <= Cardinality(RetrieversAfter(o))
      /\ Cardinality(Retrievers(o)) \in Nat /\ Cardinality(RetrieversAfter(o)) \in Nat
  BY ConsistentStep, ReadersGrow DEF Next, Consistent, TypeOK, IsTable
<1>1. CASE o \in DOMAIN objects /\ objects'[o] = objects[o]
  BY <1>0, <1>1 DEF CountsReaders, RowsCountReaders, TypeOK, IsTable, Object
<1>2. CASE CommitIngest(r) /\ o = r
  BY <1>0, <1>2 DEF CommitIngest, Put, CountsReaders, HandlersCountReaders
<1>3. CASE UpdateObject(r) /\ o = held[r].id /\ objects'[o] = StoredObject(held[r])
  <2>1. held[r].retrieved <= Cardinality(Retrievers(o)) /\ held[r].retrieved \in Nat
    BY <1>3, HandlersHold
    DEF UpdateObject, CountsReaders, HandlersCountReaders, InFlight, Object
  <2>2. objects'[o].retrieved = held[r].retrieved
    BY <1>3, StoredKeeps DEF UpdateObject
  <2> QED BY <1>0, <2>1, <2>2
<1>4. \/ o \in DOMAIN objects /\ objects'[o] = objects[o]
      \/ CommitIngest(r) /\ o = r
      \/ UpdateObject(r) /\ o = held[r].id /\ objects'[o] = StoredObject(held[r])
  BY DEF Refuse, Ingest, IngestNewSession, IngestIntoSession, Prepare, CommitIngest,
         CommitFails, Retrieve, BeginRetrieve, UpdateObject, GetSession,
         GetSessionFails, UpdateSession, AddEvent, Abort, tables, Put
<1> QED BY <1>1, <1>2, <1>3, <1>4

(* So is the session row that a commit or an UpdateSession writes.         *)
LEMMA SessionsCount ==
  ASSUME Consistent, CountsReaders, NEW r \in Requests,
         Refuse(r) \/ Ingest(r) \/ Retrieve(r) \/ Abort(r),
         NEW s \in DOMAIN sessions'
  PROVE  sessions'[s].retrieved <= Cardinality(SessionReadersAfter(s))
<1>0. /\ TypeOK /\ Next /\ s \in Requests
      /\ Cardinality(SessionReaders(s)) <= Cardinality(SessionReadersAfter(s))
      /\ Cardinality(SessionReaders(s)) \in Nat
      /\ Cardinality(SessionReadersAfter(s)) \in Nat
  BY ConsistentStep, ReadersGrow DEF Next, Consistent, TypeOK, IsTable
<1>1. ASSUME NEW row \in Session, row.retrieved <= Cardinality(SessionReaders(s)),
             sessions'[s].retrieved = row.retrieved
      PROVE  sessions'[s].retrieved <= Cardinality(SessionReadersAfter(s))
  BY <1>0, <1>1 DEF Session
<1>2. CASE s \in DOMAIN sessions /\ sessions'[s] = sessions[s]
  BY <1>0, <1>1, <1>2 DEF CountsReaders, RowsCountReaders, TypeOK, IsTable
<1>3. CASE /\ CommitIngest(r) /\ s = held[r].session
           /\ sessions'[s] = CommittedSession(r)
  <2>1. pc[r] = "commit" /\ snap[r] \in Session
    BY <1>3, CommittedTyped DEF CommitIngest
  <2>2. CASE Adapter = "memory" \/ IsNewSession(r)
    BY <1>1, <1>3, <2>1, <2>2
    DEF CommittedSession, CountsReaders, HandlersCountReaders
  <2>3. CASE ~(Adapter = "memory" \/ IsNewSession(r))
    <3>1. s \in DOMAIN sessions /\ sessions[s] \in Session
      BY <1>3, <2>3
      DEF CommitIngest, CommitApplies, Visible, Consistent, TypeOK, IsTable
    <3>2. sessions'[s].retrieved = sessions[s].retrieved
      BY <1>3, <2>3, <3>1, AddTotalsKeeps DEF CommittedSession
    <3> QED BY <1>1, <3>1, <3>2 DEF CountsReaders, RowsCountReaders
  <2> QED BY <2>2, <2>3
<1>4. CASE UpdateSession(r) /\ s = held[r].session /\ sessions'[s] = snap[r]
  BY <1>1, <1>4, HandlersHold
  DEF UpdateSession, CountsReaders, HandlersCountReaders
<1> QED BY <1>2, <1>3, <1>4, SessionWrites

LEMMA CountsStep ==
  ASSUME Consistent, CountsReaders, [Next]_vars
  PROVE  CountsReaders'
<1> USE DEF CountsReaders, RowsCountReaders, HandlersCountReaders
<1>0. /\ \A o \in Requests : Retrievers(o)' = RetrieversAfter(o)
      /\ \A s \in Requests : SessionReaders(s)' = SessionReadersAfter(s)
  BY DEF Retrievers, RetrieversAfter, SessionReaders, SessionRetrievers,
         SessionReadersAfter, IsRetrieval
<1>1. CASE Restart
  BY <1>1 DEF Restart, EmptyTable, Consistent, TypeOK, InFlight, Answers
<1>2. CASE UNCHANGED vars
  BY <1>2
  DEF vars, Retrievers, SessionReaders, SessionRetrievers, IsRetrieval
<1>3. ASSUME NEW r \in Requests, Refuse(r) \/ Ingest(r) \/ Retrieve(r) \/ Abort(r)
      PROVE  CountsReaders'
  <2>0. Consistent'
    BY ConsistentStep
  <2>1. \A o \in DOMAIN objects' :
          o \in Requests /\ objects'[o].retrieved <= Cardinality(RetrieversAfter(o))
    BY <1>3, <2>0, ObjectsCount DEF Consistent, TypeOK, IsTable
  <2>2. \A s \in DOMAIN sessions' :
          /\ s \in Requests
          /\ sessions'[s].retrieved <= Cardinality(SessionReadersAfter(s))
    BY <1>3, <2>0, SessionsCount DEF Consistent, TypeOK, IsTable
  <2>3. ASSUME NEW q \in Requests
        PROVE  /\ pc'[q] = "commit" => held'[q].retrieved = 0
               /\ pc'[q] = "updateObject" =>
                    held'[q].retrieved <= Cardinality(RetrieversAfter(held'[q].id))
               /\ pc'[q] \in {"commit", "updateSession"} =>
                    snap'[q].retrieved
                      <= Cardinality(SessionReadersAfter(held'[q].session))
    <3>1. CASE q = r
      BY <1>3, <3>1, MoverCounts
    <3>2. CASE q # r
      BY <1>3, <3>2, OthersRest, OthersCount
    <3> QED BY <3>1, <3>2
  <2>4. \A q \in Requests : pc'[q] \in InFlight =>
          held'[q].id \in Requests /\ held'[q].session \in Requests
    BY <2>0 DEF Consistent, TypeOK, HandlersAgree, HandlerAgrees, Object
  <2>5. RowsCountReaders'
    BY <1>0, <2>1, <2>2
  <2>6. HandlersCountReaders'
    BY <1>0, <2>3, <2>4 DEF InFlight
  <2> QED BY <2>5, <2>6
<1> QED BY <1>1, <1>2, <1>3 DEF Next, AllAnswered

(* Whatever races, faults and crashes there are, no object and no session  *)
(* is counted as retrieved more often than it was.                         *)
THEOREM CountsSafe == Spec => []RetrievalsNeverOvercounted
<1>1. Init => CountsReaders
  BY DEF Init, EmptyTable, CountsReaders, RowsCountReaders, HandlersCountReaders
<1>2. Consistent /\ CountsReaders => RetrievalsNeverOvercounted
  <2> SUFFICES ASSUME Consistent, CountsReaders PROVE RetrievalsNeverOvercounted
    OBVIOUS
  <2>1. ASSUME NEW s \in DOMAIN sessions
        PROVE  sessions[s].retrieved <= Cardinality(SessionRetrievers(s))
    <3>1. /\ SessionReaders(s) \in SUBSET Requests
          /\ SessionRetrievers(s) \in SUBSET Requests
          /\ SessionReaders(s) \subseteq SessionRetrievers(s)
      BY DEF SessionReaders, SessionRetrievers
    <3>2. /\ Cardinality(SessionReaders(s)) <= Cardinality(SessionRetrievers(s))
          /\ Cardinality(SessionReaders(s)) \in Nat
          /\ Cardinality(SessionRetrievers(s)) \in Nat
      BY <3>1, RequestSets
    <3>3. sessions[s].retrieved \in Nat
      BY DEF Consistent, TypeOK, IsTable, Session
    <3> QED BY <3>2, <3>3 DEF CountsReaders, RowsCountReaders
  <2> QED BY <2>1 DEF CountsReaders, RowsCountReaders, RetrievalsNeverOvercounted
<1> QED BY <1>1, <1>2, AlwaysConsistent, CountsStep, PTL DEF Spec

-----------------------------------------------------------------------------
(* RetrievalLeavesItsMark: over Postgres a counter that is above zero      *)
(* stays there, and a handler has left a mark for each step it has taken.  *)

Marked(table, k) == k \in DOMAIN table /\ table[k].retrieved > 0

MarksLeft(r) ==
  /\ pc[r] = "updateObject" => held[r].retrieved > 0
  /\ pc[r] = "updateSession" => snap[r].retrieved > 0
  /\ pc[r] \in {"getSession", "updateSession", "addEvent", "retrieved"} =>
       Marked(objects, held[r].id)
  /\ pc[r] \in {"addEvent", "retrieved"} => Marked(sessions, held[r].session)
  /\ pc[r] = "retrieved" => EventOf(r, "object_retrieved") \in events

Marks == \A r \in Requests : MarksLeft(r)

(* No handler's step takes a mark back.                                    *)
LEMMA MarksStay ==
  ASSUME Adapter = "postgres", Consistent, NEW r \in Requests, MarksLeft(r),
         Refuse(r) \/ Ingest(r) \/ Retrieve(r) \/ Abort(r)
  PROVE  /\ \A o : Marked(objects, o) => Marked(objects, o)'
         /\ \A s : Marked(sessions, s) => Marked(sessions, s)'
         /\ events \subseteq events'
<1>0. Kept
  BY ServingKeeps DEF Serving
<1>1. ASSUME NEW o, Marked(objects, o) PROVE Marked(objects, o)'
  <2>1. CASE CommitIngest(r)
    BY <1>1, <2>1, Uncommitted DEF CommitIngest, Put, Marked
  <2>2. CASE UpdateObject(r)
    <3>1. pc[r] = "updateObject" /\ StoredObject(held[r]).retrieved > 0
      BY <2>2, StoredKeeps DEF UpdateObject, MarksLeft
    <3> QED BY <1>1, <2>2, <3>1 DEF UpdateObject, Put, Marked
  <2>3. CASE UNCHANGED objects
    BY <1>1, <2>3 DEF Marked
  <2> QED
    BY <2>1, <2>2, <2>3
    DEF Refuse, Ingest, IngestNewSession, IngestIntoSession, Prepare, CommitFails,
        Retrieve, BeginRetrieve, GetSession, GetSessionFails, UpdateSession, AddEvent,
        Abort, tables
<1>2. ASSUME NEW s, Marked(sessions, s) PROVE Marked(sessions, s)'
  <2>0. s \in DOMAIN sessions /\ s \in DOMAIN sessions' /\ sessions[s].retrieved > 0
    BY <1>0, <1>2 DEF Marked, Kept
  <2>1. CASE /\ CommitIngest(r) /\ s = held[r].session
             /\ sessions'[s] = CommittedSession(r)
    <3>1. ~IsNewSession(r)
      BY <2>0, <2>1, Uncommitted DEF CommitIngest, IsNewSession
    <3>2. CommittedSession(r) = AddTotals(sessions[s], r) /\ sessions[s] \in Session
      BY <2>0, <2>1, <3>1 DEF CommittedSession, Consistent, TypeOK, IsTable
    <3> QED BY <2>0, <2>1, <3>2, AddTotalsKeeps DEF Marked
  <2>2. CASE UpdateSession(r) /\ sessions'[s] = snap[r]
    BY <2>0, <2>2 DEF UpdateSession, MarksLeft, Marked
  <2>3. CASE sessions'[s] = sessions[s]
    BY <2>0, <2>3 DEF Marked
  <2> QED BY <2>0, <2>1, <2>2, <2>3, SessionWrites
<1>3. events \subseteq events'
  BY DEF Refuse, Ingest, IngestNewSession, IngestIntoSession, Prepare, CommitIngest,
     CommitFails, Retrieve, BeginRetrieve, UpdateObject, GetSession, GetSessionFails,
     UpdateSession, AddEvent, Abort, tables
<1> QED BY <1>1, <1>2, <1>3

(* Each step of a retrieval leaves the mark that the next one counts on.   *)
LEMMA StepLeavesMark ==
  ASSUME ~Faults, Adapter = "postgres", Consistent, NEW r \in Requests, MarksLeft(r),
         Refuse(r) \/ Ingest(r) \/ Retrieve(r) \/ Abort(r)
  PROVE  MarksLeft(r)'
<1>0. TypeOK /\ caller' = caller /\ ~MayFail
  BY OthersRest DEF Consistent, MayFail
<1>1. CASE Refuse(r) \/ Ingest(r) \/ Abort(r)
  <2>1. pc'[r] \in {"commit", "ingested", "failed"}
    BY <1>0, <1>1
    DEF TypeOK, Goto, Refuse, Ingest, IngestNewSession, IngestIntoSession, Prepare,
        CommitIngest, CommitFails, Abort
  <2> QED BY <2>1 DEF MarksLeft
<1>2. CASE BeginRetrieve(r)
  <2>1. PICK o \in DOMAIN objects :
          /\ held' = [held EXCEPT ![r] = CountRetrieval(objects[o])]
          /\ Goto(r, "updateObject")
    BY <1>2 DEF BeginRetrieve
  <2>2. objects[o] \in Object
    BY <1>0 DEF TypeOK, IsTable
  <2>3. pc'[r] = "updateObject" /\ held'[r].retrieved = objects[o].retrieved + 1
    BY <1>0, <2>1, <2>2, CountKeeps DEF TypeOK, Goto
  <2> QED BY <2>2, <2>3 DEF MarksLeft, Object
<1>3. CASE UpdateObject(r)
  <2>1. /\ pc[r] = "updateObject" /\ pc'[r] = "getSession" /\ held' = held
        /\ objects' = Put(objects, held[r].id, StoredObject(held[r]))
    BY <1>0, <1>3 DEF UpdateObject, Goto, TypeOK
  <2>2. StoredObject(held[r]).retrieved > 0
    BY <2>1, StoredKeeps DEF MarksLeft
  <2> QED BY <2>1, <2>2 DEF MarksLeft, Marked, Put
<1>4. CASE GetSession(r)
  <2>1. sessions[held[r].session] \in Session
    BY <1>0, <1>4 DEF GetSession, Visible, TypeOK, IsTable
  <2>2. /\ pc[r] = "getSession" /\ pc'[r] = "updateSession" /\ held' = held
        /\ objects' = objects
        /\ snap'[r] = CountRetrieval(sessions[held[r].session])
    BY <1>0, <1>4 DEF GetSession, Goto, TypeOK, tables
  <2>3. snap'[r].retrieved > 0
    BY <2>1, <2>2, CountKeeps DEF Session
  <2> QED BY <2>2, <2>3 DEF MarksLeft, Marked
<1>5. ~GetSessionFails(r)
  <2> SUFFICES ASSUME GetSessionFails(r) PROVE FALSE
    OBVIOUS
  <2>1. pc[r] = "getSession" /\ ~Visible(sessions, caller[r], held[r].session)
    BY <1>0 DEF GetSessionFails
  <2>2. /\ Visible(objects, caller[r], held[r].id)
        /\ objects[held[r].id].session = held[r].session
    BY <2>1 DEF Consistent, HandlersAgree, HandlerAgrees, InRetrieval
  <2> QED BY <2>1, <2>2 DEF Consistent, TablesAgree, ObjectAgrees, Visible
<1>6. CASE UpdateSession(r)
  <2>1. /\ pc[r] = "updateSession" /\ pc'[r] = "addEvent" /\ held' = held
        /\ objects' = objects
        /\ sessions' = Put(sessions, held[r].session, snap[r])
    BY <1>0, <1>6 DEF UpdateSession, Goto, TypeOK
  <2> QED BY <2>1 DEF MarksLeft, Marked, Put
<1>7. CASE AddEvent(r)
  <2>1. /\ pc[r] = "addEvent" /\ pc'[r] = "retrieved" /\ held' = held
        /\ objects' = objects /\ sessions' = sessions
        /\ events' = events \cup {EventOf(r, "object_retrieved")}
    BY <1>0, <1>7 DEF AddEvent, Goto, TypeOK
  <2> QED BY <1>0, <2>1 DEF MarksLeft, Marked, EventOf
<1> QED BY <1>1, <1>2, <1>3, <1>4, <1>5, <1>6, <1>7 DEF Retrieve

LEMMA MarksStep ==
  ASSUME ~Faults, Adapter = "postgres", Consistent, Marks, [Next]_vars
  PROVE  Marks'
<1>1. CASE UNCHANGED vars
  BY <1>1 DEF vars, Marks, MarksLeft, Marked, EventOf
<1>2. ASSUME NEW r \in Requests, Refuse(r) \/ Ingest(r) \/ Retrieve(r) \/ Abort(r)
      PROVE  Marks'
  <2>1. MarksLeft(r)'
    BY <1>2, StepLeavesMark DEF Marks
  <2>2. ASSUME NEW q \in Requests \ {r} PROVE MarksLeft(q)'
    <3>1. /\ pc'[q] = pc[q] /\ held'[q] = held[q] /\ snap'[q] = snap[q]
          /\ caller' = caller
      BY <1>2, OthersRest
    <3>2. /\ \A o : Marked(objects, o) => Marked(objects, o)'
          /\ \A s : Marked(sessions, s) => Marked(sessions, s)'
          /\ events \subseteq events'
      BY <1>2, MarksStay DEF Marks
    <3>3. MarksLeft(q)
      BY DEF Marks
    <3>4. Marked(objects, held[q].id) => Marked(objects, held[q].id)'
      BY <3>1, <3>2 DEF Marked
    <3>5. Marked(sessions, held[q].session) => Marked(sessions, held[q].session)'
      BY <3>1, <3>2 DEF Marked
    <3> QED BY <3>1, <3>2, <3>3, <3>4, <3>5 DEF MarksLeft, EventOf
  <2> QED BY <2>1, <2>2 DEF Marks
<1> QED BY <1>1, <1>2 DEF Next, Restart, AllAnswered

(* Over Postgres, when no call fails, every retrieval that has answered    *)
(* stays counted at its object and at its session, and stays audited,      *)
(* however ingests and retrievals race (service.go:247-255).               *)
THEOREM MarksSafe ==
  ASSUME Adapter = "postgres"
  PROVE  Spec => []RetrievalLeavesItsMark
<1>1. Init => Marks
  BY DEF Init, Marks, MarksLeft
<1>2. Marks => RetrievalLeavesItsMark
  BY DEF Marks, MarksLeft, Marked, RetrievalLeavesItsMark
<1>3. CASE ~Faults
  <2>1. Consistent /\ Marks /\ [Next]_vars => Marks'
    BY <1>3, MarksStep
  <2> QED BY <1>1, <1>2, <2>1, AlwaysConsistent, PTL DEF Spec
<1>4. CASE Faults
  <2>1. RetrievalLeavesItsMark
    BY <1>4 DEF RetrievalLeavesItsMark
  <2> QED BY <2>1, PTL
<1> QED BY <1>3, <1>4

-----------------------------------------------------------------------------
(* Over Postgres, ControlPlane implements EvidenceLedger: every step of    *)
(* the service is a step of the ledger or leaves it as it is.  A commit    *)
(* publishes, the last step of a retrieval serves, whatever ends a request *)
(* otherwise rejects it.                                                   *)

(* Object o as a piece of evidence.                                        *)
EvidenceOf(o) ==
  [id |-> o, session |-> objects[o].session, scope |-> objects[o].scope,
   text |-> objects[o].text, kinds |-> Findings[objects[o].text]]

Sound == Consistent /\ RowsAgree

(* What a step does to the ledger, told by what it does to the tables.     *)
LedgerIsEvidence == LedgerOf = {EvidenceOf(o) : o \in DOMAIN objects}

(* The redaction rows of an object are those of its text, no more.         *)
LEMMA SoundLedger == Sound => LedgerIsEvidence
<1> SUFFICES ASSUME Sound PROVE LedgerIsEvidence
  OBVIOUS
<1> DEFINE Rows(o)  == {x \in redactions : x.object = o}
           KindsOf(o) == {row.kind : row \in Rows(o)}
<1>1. ASSUME NEW o \in DOMAIN objects
      PROVE  KindsOf(o) = Findings[objects[o].text]
  <2>0. objects[o].id = o
    BY DEF Sound, Consistent, TablesAgree, ObjectAgrees
  <2>1. ASSUME NEW row \in redactions, row.object = o
        PROVE  row.kind \in Findings[objects[o].text]
    BY <2>1 DEF Sound, RowsAgree, RedactionRows
  <2>2. ASSUME NEW k \in Findings[objects[o].text]
        PROVE  \E row \in redactions : row.object = o /\ row.kind = k
    <3> DEFINE row == [object |-> objects[o].id, session |-> objects[o].session,
                       scope |-> objects[o].scope, kind |-> k]
    <3>1. row \in RedactionRows(objects[o])
      BY DEF RedactionRows
    <3>2. row \in redactions
      BY <3>1 DEF Sound, RowsAgree
    <3> QED
      BY <2>0, <3>2
  <2> QED
    BY <2>1, <2>2
<1>2. LedgerOf =
        {[id |-> o, session |-> objects[o].session, scope |-> objects[o].scope,
          text |-> objects[o].text, kinds |-> KindsOf(o)] : o \in DOMAIN objects}
  BY DEF LedgerOf
<1> HIDE DEF KindsOf
<1> QED
  BY <1>1, <1>2 DEF EvidenceOf, LedgerIsEvidence

LEMMA SoundLedgerNext == Sound' => LedgerIsEvidence'
  BY SoundLedger, PTL

(* A step that stores no new object leaves the ledger as it is.            *)
LEMMA LedgerKept ==
  ASSUME Sound, Sound', Kept, DOMAIN objects' = DOMAIN objects
  PROVE  LedgerOf' = LedgerOf
<1>1. LedgerOf = {EvidenceOf(o) : o \in DOMAIN objects}
  BY SoundLedger DEF LedgerIsEvidence
<1>2. LedgerOf' = {EvidenceOf(o)' : o \in DOMAIN objects}
  BY SoundLedgerNext DEF LedgerIsEvidence
<1>3. \A o \in DOMAIN objects : EvidenceOf(o)' = EvidenceOf(o)
  BY DEF EvidenceOf, Kept
<1> QED
  BY <1>1, <1>2, <1>3

-----------------------------------------------------------------------------
(* What the clients see of a step.                                         *)

Step(r) == Refuse(r) \/ Ingest(r) \/ Retrieve(r) \/ Abort(r)

(* A step is of a request without an answer, and answers no other request. *)
LEMMA OneAnswers ==
  ASSUME Consistent, NEW r \in Requests, Step(r)
  PROVE  /\ caller' = caller
         /\ StatusOf[r] = "pending" /\ ContentOf[r] = Nothing
         /\ StatusOf' = [StatusOf EXCEPT ![r] =
                           IF pc'[r] \in Answers THEN pc'[r] ELSE "pending"]
         /\ ContentOf' = [ContentOf EXCEPT ![r] =
                            IF pc'[r] \in {"ingested", "retrieved"}
                            THEN [id |-> held'[r].id, text |-> held'[r].text]
                            ELSE Nothing]
<1>1. /\ caller' = caller
      /\ \A q \in Requests \ {r} : pc'[q] = pc[q] /\ held'[q] = held[q]
  BY OthersRest DEF Step
<1>2. pc[r] \in {"idle"} \cup InFlight
  BY DEF Step, Refuse, Ingest, IngestNewSession, IngestIntoSession, Prepare,
     CommitIngest, CommitFails, Retrieve, BeginRetrieve, UpdateObject, GetSession,
     GetSessionFails, UpdateSession, AddEvent, Abort, InFlight
<1>3. pc[r] \notin Answers /\ pc[r] \notin {"ingested", "retrieved"}
  BY <1>2 DEF InFlight, Answers
<1>4. \A q \in Requests \ {r} :
        /\ StatusOf'[q] = StatusOf[q]
        /\ ContentOf'[q] = ContentOf[q]
  BY <1>1 DEF StatusOf, ContentOf
<1>5. StatusOf[r] = "pending" /\ ContentOf[r] = Nothing
  BY <1>3 DEF StatusOf, ContentOf
<1>6. StatusOf' = [StatusOf EXCEPT ![r] =
                     IF pc'[r] \in Answers THEN pc'[r] ELSE "pending"]
  BY <1>4 DEF StatusOf
<1>7. ContentOf' = [ContentOf EXCEPT ![r] =
                      IF pc'[r] \in {"ingested", "retrieved"}
                      THEN [id |-> held'[r].id, text |-> held'[r].text]
                      ELSE Nothing]
  BY <1>4 DEF ContentOf
<1> QED
  BY <1>1, <1>5, <1>6, <1>7

(* Steps before the last one show nothing.                                 *)
LEMMA StepHidden ==
  ASSUME Consistent, NEW r \in Requests, Step(r), LedgerOf' = LedgerOf,
         pc'[r] \notin Answers
  PROVE  UNCHANGED Ledger!vars
<1>1. pc'[r] \notin {"ingested", "retrieved"}
  BY DEF Answers
<1>2. StatusOf' = StatusOf
  BY OneAnswers DEF StatusOf
<1>3. ContentOf' = ContentOf
  BY <1>1, OneAnswers DEF ContentOf
<1> QED
  BY <1>2, <1>3, OneAnswers DEF Ledger!vars

(* A request that fails is rejected.                                       *)
LEMMA StepRejects ==
  ASSUME Consistent, NEW r \in Requests, Step(r), LedgerOf' = LedgerOf,
         pc'[r] = "failed"
  PROVE  Ledger!Reject(r)
<1>1. StatusOf' = [StatusOf EXCEPT ![r] = "failed"]
  BY OneAnswers DEF Answers
<1>2. ContentOf' = ContentOf
  BY OneAnswers DEF ContentOf
<1> QED
  BY <1>1, <1>2, OneAnswers DEF Ledger!Reject, Ledger!Fail

(* A retrieval ends by serving the evidence it read.                       *)
LEMMA StepServes ==
  ASSUME Sound, NEW r \in Requests, AddEvent(r), LedgerOf' = LedgerOf
  PROVE  Ledger!Serve(r)
<1> DEFINE o == held[r].id
           e == EvidenceOf(o)
<1>0. Consistent /\ Step(r)
  BY DEF Sound, Step, Retrieve
<1>1. /\ pc[r] = "addEvent" /\ pc'[r] = "retrieved"
      /\ held'[r] = held[r]
  BY <1>0 DEF AddEvent, Goto, Consistent, TypeOK
<1>2. /\ o \in DOMAIN objects /\ objects[o].scope = caller[r]
      /\ objects[o].text = held[r].text
  BY <1>0, <1>1 DEF Consistent, HandlersAgree, HandlerAgrees, InRetrieval, Visible
<1>3. e \in LedgerOf
  BY <1>2, SoundLedger DEF LedgerIsEvidence
<1>4. e.scope = caller[r] /\ e.id = o /\ e.text = held[r].text
  BY <1>2 DEF EvidenceOf
<1>5. StatusOf[r] = "pending" /\ caller' = caller
  BY <1>0, OneAnswers
<1>6. StatusOf' = [StatusOf EXCEPT ![r] = "retrieved"]
  BY <1>0, <1>1, OneAnswers DEF Answers
<1>7. ContentOf' = [ContentOf EXCEPT ![r] = [id |-> e.id, text |-> e.text]]
  BY <1>0, <1>1, <1>4, OneAnswers
<1> QED
  BY <1>3, <1>4, <1>5, <1>6, <1>7 DEF Ledger!Serve, Ledger!Tell

(* A commit publishes the object and its redaction rows as one.            *)
LEMMA CommitAddsEvidence ==
  ASSUME Sound, Sound', NEW r \in Requests, CommitIngest(r)
  PROVE  /\ EvidenceOf(r)' = [id |-> r, session |-> held[r].session,
                              scope |-> caller[r], text |-> held[r].text,
                              kinds |-> Findings[held[r].text]]
         /\ LedgerOf' = LedgerOf \cup {EvidenceOf(r)'}
<1>0. r \notin DOMAIN objects /\ held[r].scope = caller[r]
  BY Uncommitted
  DEF CommitIngest, Sound, Consistent, HandlersAgree, HandlerAgrees, InFlight
<1>1. /\ DOMAIN objects' = DOMAIN objects \cup {r}
      /\ objects'[r] = held[r]
      /\ \A o \in DOMAIN objects : objects'[o] = objects[o]
  BY <1>0 DEF CommitIngest, Put
<1>2. EvidenceOf(r)' = [id |-> r, session |-> held[r].session, scope |-> caller[r],
                        text |-> held[r].text, kinds |-> Findings[held[r].text]]
  BY <1>0, <1>1 DEF EvidenceOf
<1>3. \A o \in DOMAIN objects : EvidenceOf(o)' = EvidenceOf(o)
  BY <1>1 DEF EvidenceOf
<1>4. LedgerOf = {EvidenceOf(o) : o \in DOMAIN objects}
  BY SoundLedger DEF LedgerIsEvidence
<1>5. LedgerOf' = {EvidenceOf(o)' : o \in DOMAIN objects \cup {r}}
  BY <1>1, SoundLedgerNext DEF LedgerIsEvidence
<1> QED
  BY <1>2, <1>3, <1>4, <1>5

(* What is committed is evidence, and has a session to be in.              *)
LEMMA CommittedFits ==
  ASSUME Sound, NEW r \in Requests, pc[r] = "commit",
         CommitApplies(r),
         NEW e, e = [id |-> r, session |-> held[r].session, scope |-> caller[r],
                     text |-> held[r].text, kinds |-> Findings[held[r].text]]
  PROVE  /\ e \in Ledger!Evidence
         /\ \A f \in LedgerOf : f.id # r
         /\ Ledger!Fits(e)
<1>0. Consistent /\ TypeOK
  BY DEF Sound, Consistent
<1>1. held[r] \in Object
  BY <1>0, HandlersHold DEF InFlight
<1>2. e \in Ledger!Evidence
  BY <1>0, <1>1, FindingsTyped DEF Ledger!Evidence, TypeOK, Object
<1>3. LedgerOf = {EvidenceOf(o) : o \in DOMAIN objects}
  BY SoundLedger DEF LedgerIsEvidence
<1>4. r \notin DOMAIN objects /\ r \notin DOMAIN sessions
  BY <1>0, Uncommitted
<1>5. \A f \in LedgerOf : f.id # r
  BY <1>3, <1>4 DEF EvidenceOf
<1>6. CASE e.session = e.id
  <2>1. \A o \in DOMAIN objects : objects[o].session # r
    BY <1>0, <1>4 DEF Consistent, TablesAgree, ObjectAgrees, Visible
  <2>2. \A f \in LedgerOf : f.session # r
    BY <1>3, <2>1 DEF EvidenceOf
  <2> QED
    BY <1>2, <1>5, <1>6, <2>2 DEF Ledger!Fits
<1>7. CASE e.session # e.id
  <2> DEFINE s == held[r].session
  <2>1. Visible(sessions, caller[r], s)
    BY <1>7 DEF CommitApplies, IsNewSession
  <2>2. s \in DOMAIN objects /\ objects[s].session = s
    BY <1>0, <2>1 DEF Visible, Consistent, TablesAgree, Belongs
  <2>3. objects[s].scope = caller[r]
    BY <1>0, <2>1, <2>2 DEF Visible, Consistent, TablesAgree, ObjectAgrees
  <2>4. EvidenceOf(s) \in LedgerOf
    BY <1>3, <2>2
  <2>5. EvidenceOf(s).session = e.session /\ EvidenceOf(s).scope = e.scope
    BY <2>2, <2>3 DEF EvidenceOf
  <2> QED
    BY <1>2, <1>5, <1>7, <2>4, <2>5 DEF Ledger!Fits
<1> QED
  BY <1>6, <1>7

LEMMA CommitPublishes ==
  ASSUME Sound, Sound', NEW r \in Requests, CommitIngest(r)
  PROVE  Ledger!Publish(r)
<1> DEFINE e == [id |-> r, session |-> held[r].session, scope |-> caller[r],
                 text |-> held[r].text, kinds |-> Findings[held[r].text]]
<1>0. Consistent /\ Step(r)
  BY DEF Sound, Step, Ingest
<1>1. /\ pc[r] = "commit" /\ CommitApplies(r)
      /\ pc'[r] \in {"ingested", "failed"}
      /\ held'[r] = held[r] /\ held[r].id = r
  BY <1>0
  DEF CommitIngest, Goto, Consistent, TypeOK, HandlersAgree, HandlerAgrees
<1>2. /\ e \in Ledger!Evidence
      /\ \A f \in LedgerOf : f.id # r
      /\ Ledger!Fits(e)
  BY <1>1, CommittedFits
<1>3. LedgerOf' = LedgerOf \cup {e}
  BY CommitAddsEvidence
<1>4. /\ StatusOf[r] = "pending" /\ caller' = caller
      /\ StatusOf' = [StatusOf EXCEPT ![r] = pc'[r]]
  BY <1>0, <1>1, OneAnswers DEF Answers
<1>5. CASE pc'[r] = "ingested"
  <2>1. ContentOf' = [ContentOf EXCEPT ![r] = [id |-> e.id, text |-> e.text]]
    BY <1>0, <1>1, <1>5, OneAnswers
  <2>2. Ledger!Tell(r, "ingested", e)
    BY <1>4, <1>5, <2>1 DEF Ledger!Tell
  <2> QED
    BY <1>2, <1>3, <1>4, <2>2 DEF Ledger!Publish
<1>6. CASE pc'[r] = "failed"
  <2>1. ContentOf' = ContentOf
    BY <1>0, <1>6, OneAnswers DEF ContentOf
  <2>2. Ledger!Fail(r)
    BY <1>4, <1>6, <2>1 DEF Ledger!Fail
  <2> QED
    BY <1>2, <1>3, <1>4, <2>2 DEF Ledger!Publish
<1> QED
  BY <1>1, <1>5, <1>6

-----------------------------------------------------------------------------
LEMMA LedgerStep ==
  ASSUME Adapter = "postgres", Sound, Sound', [Next]_vars
  PROVE  [Ledger!Next]_(Ledger!vars)
<1>0. Consistent /\ TypeOK /\ ~Restart
  BY DEF Sound, Consistent, Restart
<1>1. CASE UNCHANGED vars
  BY <1>1 DEF vars, LedgerOf, StatusOf, ContentOf, Ledger!vars
<1>2. ASSUME NEW r \in Requests, Step(r)
      PROVE  [Ledger!Next]_(Ledger!vars)
  <2>1. CASE CommitIngest(r)
    BY <2>1, CommitPublishes DEF Ledger!Next
  <2>2. CASE ~CommitIngest(r)
    <3>1. ~\E q \in Requests : CommitIngest(q)
      <4>1. ASSUME NEW q \in Requests, CommitIngest(q) PROVE q = r
        <5>1. pc[q] = "commit" /\ pc'[q] # "commit"
          BY <1>0, <4>1 DEF CommitIngest, Goto, TypeOK
        <5> QED
          BY <1>0, <1>2, <5>1, OthersRest DEF Step
      <4> QED
        BY <2>2, <4>1
    <3>2. LedgerOf' = LedgerOf
      BY <1>0, <3>1, NothingIsLost, OnlyCommitAdds, LedgerKept
    <3>3. CASE AddEvent(r)
      BY <3>2, <3>3, StepServes DEF Ledger!Next
    <3>4. CASE Refuse(r) \/ CommitFails(r) \/ Abort(r)
      <4>1. pc'[r] = "failed"
        BY <1>0, <3>4 DEF Refuse, CommitFails, Abort, Goto, TypeOK
      <4> QED
        BY <1>0, <1>2, <3>2, <4>1, StepRejects DEF Ledger!Next
    <3>5. CASE IngestNewSession(r) \/ IngestIntoSession(r)
      <4>1. pc'[r] \notin Answers
        BY <1>0, <3>5
        DEF IngestNewSession, IngestIntoSession, Prepare, Goto, TypeOK, Answers
      <4> QED
        BY <1>0, <1>2, <3>2, <4>1, StepHidden
    <3>6. CASE \/ BeginRetrieve(r) \/ UpdateObject(r) \/ GetSession(r)
               \/ GetSessionFails(r) \/ UpdateSession(r)
      <4>1. pc'[r] \notin Answers
        BY <1>0, <3>6
        DEF BeginRetrieve, UpdateObject, GetSession, GetSessionFails, UpdateSession,
            Goto, TypeOK, Answers
      <4> QED
        BY <1>0, <1>2, <3>2, <4>1, StepHidden
    <3> QED
      BY <1>2, <2>2, <3>3, <3>4, <3>5, <3>6 DEF Step, Ingest, Retrieve
  <2> QED
    BY <2>1, <2>2
<1> QED
  BY <1>0, <1>1, <1>2 DEF Next, Step, AllAnswered

(* The service over Postgres, for any number of requests, tenants and      *)
(* texts, implements the ledger of evidence.                               *)
THEOREM ServiceImplementsLedger ==
  ASSUME Adapter = "postgres"
  PROVE  Spec => ImplementsLedger
<1>1. Init => Ledger!Init
  BY DEF Init, Ledger!Init, LedgerOf, StatusOf, ContentOf, EmptyTable, Answers
<1>2. Sound /\ Sound' /\ [Next]_vars => [Ledger!Next]_(Ledger!vars)
  BY LedgerStep
<1>3. Spec => []Sound
  BY AlwaysConsistent, RowsAlwaysAgree, PTL DEF Sound
<1> QED
  BY <1>1, <1>2, <1>3, PTL DEF Spec, ImplementsLedger, Ledger!Spec

-----------------------------------------------------------------------------
(* What is acknowledged is there for good, and resolves if the reference   *)
(* of its tenant does.                                                     *)

ReferencesResolve == \A sc \in Scopes : RefTenant(sc.tenant) = sc.tenant

AcknowledgedIsStored == \A r \in Requests : pc[r] = "ingested" => r \in DOMAIN objects

LEMMA AcknowledgedStep ==
  ASSUME Adapter = "postgres", Consistent, AcknowledgedIsStored, [Next]_vars
  PROVE  AcknowledgedIsStored'
<1>0. ~Restart /\ TypeOK
  BY DEF Restart, Consistent
<1>1. \A o \in DOMAIN objects : o \in DOMAIN objects'
  BY <1>0, NothingIsLost DEF Kept
<1>2. CASE UNCHANGED vars
  BY <1>2 DEF vars, AcknowledgedIsStored
<1>3. ASSUME NEW r \in Requests, Step(r), NEW q \in Requests, pc'[q] = "ingested"
      PROVE  q \in DOMAIN objects'
  <2>1. CASE q # r
    BY <1>1, <1>3, <2>1, OthersRest DEF Step, AcknowledgedIsStored
  <2>2. CASE q = r /\ CommitIngest(r)
    BY <2>2 DEF CommitIngest, Put
  <2>3. CASE q = r /\ ~CommitIngest(r)
    <3>1. pc'[r] # "ingested"
      BY <1>0, <1>3, <2>3
      DEF Step, Refuse, Ingest, IngestNewSession, IngestIntoSession, Prepare, CommitFails,
          Retrieve, BeginRetrieve, UpdateObject, GetSession, GetSessionFails,
          UpdateSession, AddEvent, Abort, Goto, TypeOK
    <3> QED
      BY <1>3, <2>3, <3>1
  <2> QED
    BY <2>1, <2>2, <2>3
<1> QED
  BY <1>0, <1>2, <1>3 DEF Next, Step, AllAnswered, AcknowledgedIsStored

(* Over Postgres an acknowledged ingest can be retrieved from then on, by  *)
(* tenants whose references read back; `ContextRef` says which others do not.*)
THEOREM AcknowledgedSafe ==
  ASSUME Adapter = "postgres", ReferencesResolve
  PROVE  Spec => []AcknowledgedIngestIsRetrievable
<1>1. Init => AcknowledgedIsStored
  BY DEF Init, AcknowledgedIsStored
<1>2. Spec => []AcknowledgedIsStored
  BY <1>1, AlwaysConsistent, AcknowledgedStep, PTL DEF Spec
<1>3. Consistent /\ AcknowledgedIsStored => AcknowledgedIngestIsRetrievable
  <2> SUFFICES ASSUME Consistent, AcknowledgedIsStored, NEW r \in Requests,
                      pc[r] = "ingested", StoreRawMode # "none"
               PROVE  Retrievable(caller[r], r) /\ objects[r].text = held[r].text
    BY DEF AcknowledgedIngestIsRetrievable
  <2>1. r \in DOMAIN objects /\ ObjectAgrees(r) /\ caller[r] \in Scopes
    BY DEF AcknowledgedIsStored, Consistent, TablesAgree, TypeOK
  <2> QED
    BY <2>1 DEF ObjectAgrees, Retrievable, Visible, ReferencesResolve
<1> QED
  BY <1>2, <1>3, AlwaysConsistent, PTL

=============================================================================
