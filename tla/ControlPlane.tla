----------------------------- MODULE ControlPlane -----------------------------
(***************************************************************************)
(* The xContext API service: Ingest and Retrieve of                        *)
(* internal/service/service.go, run concurrently, over either store of     *)
(* internal/store (Memory or Postgres).                                    *)
(*                                                                         *)
(* A handler is a chain of store calls; between two of them any other      *)
(* handler may run, so every store call is an action of its own, and what  *)
(* a handler read it keeps in held and snap.  One store call is atomic:    *)
(* Memory holds its mutex, Postgres runs one statement or, in              *)
(* CommitIngest, one transaction.                                          *)
(*                                                                         *)
(* Abstractions.  A request's name serves as the random session, object    *)
(* and event ids it mints.  All totals of a session (tokens, cost,         *)
(* redactions, objects) are sums over the same objects, so `totals` says   *)
(* how many times each object's contribution is in them.  Timestamps,      *)
(* summaries and descriptive fields are left out.                          *)
(***************************************************************************)
EXTENDS ContextRef, FiniteSets

CONSTANTS
  Requests,       \* the requests of a run; each mints at most one object
  Workspaces,
  Scopes,         \* the callers: a tenant and one of its workspaces
  Texts,          \* the acceptable texts (not empty, within MaxInputBytes)
  Kinds,          \* what the redactor looks for
  Findings,       \* the kinds it finds in each text
  StoreRawMode,   \* config: "redacted", "original" or "none"
  Adapter,        \* config: "memory" or "postgres"
  Faults,         \* may the database, its connection or the process fail?
  Nothing         \* what a handler holds before it has read anything

RawModes == {"redacted", "original", "none"}
Adapters == {"memory", "postgres"}

Session == [scope : Scopes, totals : [Requests -> Nat], retrieved : Nat]

Object == [id : Requests, session : Requests, scope : Scopes, text : Texts,
           raw : RawModes, retrieved : Nat]

Redaction == [object : Requests, session : Requests, scope : Scopes, kind : Kinds]

Event == [type : {"object_ingested", "object_retrieved"}, by : Requests,
          object : Requests, session : Requests, scope : Scopes]

ASSUME RequestsFinite == IsFiniteSet(Requests)
ASSUME ScopesTyped ==
  Scopes \subseteq [tenant : TenantIds, workspace : Workspaces]
ASSUME FindingsTyped == Findings \in [Texts -> SUBSET Kinds]
ASSUME ConfigTyped ==
  StoreRawMode \in RawModes /\ Adapter \in Adapters /\ Faults \in BOOLEAN
ASSUME NothingIsNoRow == Nothing \notin Session /\ Nothing \notin Object

VARIABLES
  sessions, objects,     \* tables: ids to rows
  redactions, events,    \* tables: sets of rows
  caller,                \* the scope each request is authenticated with
  pc,                    \* the store call a handler makes next, or its answer
  held,                  \* the object a handler has built or read
  snap                   \* the session a handler has built or read

tables == <<sessions, objects, redactions, events>>
vars == <<sessions, objects, redactions, events, caller, pc, held, snap>>

Answers  == {"ingested", "retrieved", "failed"}
InFlight == {"commit", "updateObject", "getSession", "updateSession", "addEvent"}

(* A map from ids to rows.                                                 *)
IsTable(table, Rows) ==
  DOMAIN table \subseteq Requests /\ table \in [DOMAIN table -> Rows]

TypeOK ==
  /\ IsTable(sessions, Session)
  /\ IsTable(objects, Object)
  /\ redactions \subseteq Redaction
  /\ events \subseteq Event
  /\ caller \in [Requests -> Scopes]
  /\ pc \in [Requests -> {"idle"} \cup InFlight \cup Answers]
  /\ held \in [Requests -> Object \cup {Nothing}]
  /\ snap \in [Requests -> Session \cup {Nothing}]

-----------------------------------------------------------------------------
(* The stores.                                                             *)

(* Mutant: a lookup by id alone, without tenant and workspace.             *)
VisibleToAnyone(table, sc, k) == k \in DOMAIN table

(* The row is there and belongs to the caller's tenant and workspace.      *)
Visible(table, sc, k) == k \in DOMAIN table /\ table[k].scope = sc

EmptyTable == [i \in {} |-> Nothing]

Put(table, k, row) ==
  [i \in DOMAIN table \cup {k} |-> IF i = k THEN row ELSE table[i]]

(* Mutant: retrieved_count=retrieved_count+$4 with the absolute count.     *)
StoredObjectAddsCount(obj) ==
  [objects[obj.id] EXCEPT !.retrieved = @ + obj.retrieved]

(* UpdateObject: Memory puts the whole row, Postgres sets one column.      *)
StoredObject(obj) ==
  IF Adapter = "memory"
  THEN obj
  ELSE [objects[obj.id] EXCEPT !.retrieved = obj.retrieved]

(* A call to Postgres may fail; one to Memory cannot.                      *)
MayFail == Faults /\ Adapter = "postgres"

-----------------------------------------------------------------------------
(* Steps shared by the handlers.                                           *)

Goto(r, label) == pc' = [pc EXCEPT ![r] = label]

Fresh(r) == [scope |-> caller[r], totals |-> [o \in Requests |-> 0], retrieved |-> 0]

NewObject(r, s, text) ==
  [id |-> r, session |-> s, scope |-> caller[r], text |-> text,
   raw |-> StoreRawMode, retrieved |-> 0]

AddTotals(session, o) == [session EXCEPT !.totals[o] = @ + 1]

(* RetrievedCount++ on an object or a session.                             *)
CountRetrieval(row) == [row EXCEPT !.retrieved = @ + 1]

EventOf(r, type) ==
  [type |-> type, by |-> r, object |-> held[r].id, session |-> held[r].session,
   scope |-> caller[r]]

RedactionRows(obj) ==
  {[object |-> obj.id, session |-> obj.session, scope |-> obj.scope, kind |-> k]
     : k \in Findings[obj.text]}

(* A request that is refused before it changes anything: an empty or       *)
(* oversized text, a session, reference or object that is not visible, a   *)
(* reference that names another tenant, no raw content, or a failed read.  *)
Refuse(r) ==
  /\ pc[r] = "idle"
  /\ Goto(r, "failed")
  /\ UNCHANGED <<tables, caller, held, snap>>

-----------------------------------------------------------------------------
(* POST /v1/ingest                                                         *)

(* Build the object and the session row to be committed.                   *)
Prepare(r, s, session, text) ==
  /\ pc[r] = "idle"
  /\ held' = [held EXCEPT ![r] = NewObject(r, s, text)]
  /\ snap' = [snap EXCEPT ![r] = AddTotals(session, r)]
  /\ Goto(r, "commit")
  /\ UNCHANGED <<tables, caller>>

IngestNewSession(r) == \E text \in Texts : Prepare(r, r, Fresh(r), text)

(* GetSession, then everything up to the commit.                           *)
IngestIntoSession(r) ==
  \E s \in DOMAIN sessions, text \in Texts :
    /\ Visible(sessions, caller[r], s)
    /\ Prepare(r, s, sessions[s], text)

IsNewSession(r) == held[r].session = r

(* A row that is not new must still be there and in scope.                 *)
CommitApplies(r) ==
  IsNewSession(r) \/ Visible(sessions, caller[r], held[r].session)

(* Mutant: the snapshot, which already counts the object, plus the delta.  *)
CommittedSessionTwice(r) == AddTotals(snap[r], r)

(* Mutant: Postgres writes the snapshot back, as Memory does.              *)
CommittedSessionStale(r) == snap[r]

(* Memory stores the handler's row, Postgres inserts it or adds a delta.   *)
CommittedSession(r) ==
  IF Adapter = "memory" \/ IsNewSession(r)
  THEN snap[r]
  ELSE AddTotals(sessions[held[r].session], r)

(* Mutant: the transaction commits before the redaction rows are written.  *)
CommitWithoutRedactions(r) ==
  /\ pc[r] = "commit"
  /\ CommitApplies(r)
  /\ sessions' = Put(sessions, held[r].session, CommittedSession(r))
  /\ objects' = Put(objects, r, held[r])
  /\ events' = events \cup {EventOf(r, "object_ingested")}
  /\ Goto(r, "ingested")
  /\ UNCHANGED <<redactions, caller, held, snap>>

(* Mutant: nobody commits, and the deferred rollback undoes everything.    *)
CommitForgotten(r) ==
  /\ pc[r] = "commit"
  /\ CommitApplies(r)
  /\ Goto(r, "ingested")
  /\ UNCHANGED <<tables, caller, held, snap>>

(* CommitIngest.  When the connection fails on the acknowledgement of the  *)
(* commit, the rows are there and the client gets an error.                *)
CommitIngest(r) ==
  /\ pc[r] = "commit"
  /\ CommitApplies(r)
  /\ sessions' = Put(sessions, held[r].session, CommittedSession(r))
  /\ objects' = Put(objects, r, held[r])
  /\ redactions' = redactions \cup RedactionRows(held[r])
  /\ events' = events \cup {EventOf(r, "object_ingested")}
  /\ \/ Goto(r, "ingested")
     \/ MayFail /\ Goto(r, "failed")
  /\ UNCHANGED <<caller, held, snap>>

(* Mutant: the error of CommitIngest is dropped.                           *)
CommitErrorDropped(r) ==
  /\ pc[r] = "commit"
  /\ MayFail \/ ~CommitApplies(r)
  /\ Goto(r, "ingested")
  /\ UNCHANGED <<tables, caller, held, snap>>

(* Mutant: after a failed commit the handler goes on to record an event.   *)
CommitKeepsGoing(r) ==
  /\ pc[r] = "commit"
  /\ MayFail \/ ~CommitApplies(r)
  /\ Goto(r, "addEvent")
  /\ UNCHANGED <<tables, caller, held, snap>>

(* A statement fails, or no session row matches: all is rolled back.       *)
CommitFails(r) ==
  /\ pc[r] = "commit"
  /\ MayFail \/ ~CommitApplies(r)
  /\ Goto(r, "failed")
  /\ UNCHANGED <<tables, caller, held, snap>>

-----------------------------------------------------------------------------
(* POST /v1/retrieve                                                       *)

(* The reference parses to the caller's tenant, the object is visible, and *)
(* its raw content was kept.                                               *)
Retrievable(sc, o) ==
  /\ Visible(objects, sc, o)
  /\ RefTenant(objects[o].scope.tenant) = sc.tenant
  /\ objects[o].raw # "none"

(* GetObjectByRef.                                                         *)
BeginRetrieve(r) ==
  \E o \in DOMAIN objects :
    /\ pc[r] = "idle"
    /\ Retrievable(caller[r], o)
    /\ held' = [held EXCEPT ![r] = CountRetrieval(objects[o])]
    /\ Goto(r, "updateObject")
    /\ UNCHANGED <<tables, caller, snap>>

(* UpdateObject; its error is ignored, here and in the next steps.         *)
UpdateObject(r) ==
  /\ pc[r] = "updateObject"
  /\ \/ objects' = Put(objects, held[r].id, StoredObject(held[r]))
     \/ MayFail /\ UNCHANGED objects
  /\ Goto(r, "getSession")
  /\ UNCHANGED <<sessions, redactions, events, caller, held, snap>>

GetSession(r) ==
  /\ pc[r] = "getSession"
  /\ Visible(sessions, caller[r], held[r].session)
  /\ snap' = [snap EXCEPT ![r] = CountRetrieval(sessions[held[r].session])]
  /\ Goto(r, "updateSession")
  /\ UNCHANGED <<tables, caller, held>>

GetSessionFails(r) ==
  /\ pc[r] = "getSession"
  /\ MayFail \/ ~Visible(sessions, caller[r], held[r].session)
  /\ Goto(r, "addEvent")
  /\ UNCHANGED <<tables, caller, held, snap>>

(* UpdateSession writes every total of the row that GetSession read.       *)
UpdateSession(r) ==
  /\ pc[r] = "updateSession"
  /\ \/ sessions' = Put(sessions, held[r].session, snap[r])
     \/ MayFail /\ UNCHANGED sessions
  /\ Goto(r, "addEvent")
  /\ UNCHANGED <<objects, redactions, events, caller, held, snap>>

AddEvent(r) ==
  /\ pc[r] = "addEvent"
  /\ \/ events' = events \cup {EventOf(r, "object_retrieved")}
     \/ MayFail /\ UNCHANGED events
  /\ Goto(r, "retrieved")
  /\ UNCHANGED <<sessions, objects, redactions, caller, held, snap>>

-----------------------------------------------------------------------------
(* The process.                                                            *)

(* A replica over Postgres dies with this handler in flight.               *)
Abort(r) ==
  /\ MayFail
  /\ pc[r] \in InFlight
  /\ Goto(r, "failed")
  /\ UNCHANGED <<tables, caller, held, snap>>

(* The process that holds the Memory store is restarted: all is lost.      *)
Restart ==
  /\ Faults /\ Adapter = "memory"
  /\ sessions' = EmptyTable /\ objects' = EmptyTable
  /\ redactions' = {} /\ events' = {}
  /\ pc' = [r \in Requests |-> IF pc[r] \in InFlight THEN "failed" ELSE pc[r]]
  /\ UNCHANGED <<caller, held, snap>>

(* Every request of the run has its answer.                                *)
AllAnswered == (\A r \in Requests : pc[r] \in Answers) /\ UNCHANGED vars

Init ==
  /\ sessions = EmptyTable /\ objects = EmptyTable
  /\ redactions = {} /\ events = {}
  /\ caller \in [Requests -> Scopes]
  /\ pc = [r \in Requests |-> "idle"]
  /\ held = [r \in Requests |-> Nothing]
  /\ snap = [r \in Requests |-> Nothing]

Ingest(r) ==
  IngestNewSession(r) \/ IngestIntoSession(r) \/ CommitIngest(r) \/ CommitFails(r)

Retrieve(r) ==
  \/ BeginRetrieve(r) \/ UpdateObject(r)
  \/ GetSession(r) \/ GetSessionFails(r) \/ UpdateSession(r)
  \/ AddEvent(r)

Next ==
  \/ \E r \in Requests : Refuse(r) \/ Ingest(r) \/ Retrieve(r) \/ Abort(r)
  \/ Restart
  \/ AllAnswered

Spec == Init /\ [][Next]_vars

=============================================================================
