------------------------ MODULE ControlPlaneProperties ------------------------
(***************************************************************************)
(* What must hold of ControlPlane, the ledger it implements, and the       *)
(* inductive invariant from which ControlPlaneProofs derives the proofs.   *)
(***************************************************************************)
EXTENDS ControlPlane

Counted(s, o) == sessions[s].totals[o]

Belongs(s, o) == o \in DOMAIN objects /\ objects[o].session = s

IsRetrieval(r) == held[r] # Nothing /\ held[r].id # r

Retrievers(o) == {r \in Requests : IsRetrieval(r) /\ held[r].id = o}

SessionRetrievers(s) == {r \in Requests : IsRetrieval(r) /\ held[r].session = s}

(* However snapshots and deltas interleave (service.go:186-195, 249-253,   *)
(* store.go:58, postgres.go:39), a session never counts an object twice,   *)
(* nor one that is not among its own objects.                              *)
TotalsNeverOverclaim ==
  \A s \in DOMAIN sessions, o \in Requests :
    Counted(s, o) <= IF Belongs(s, o) THEN 1 ELSE 0

(* Until a retrieval has written the session row, its totals are exactly   *)
(* the sums over its objects, whatever ingests run concurrently: what the  *)
(* relative update of postgres.go:39 is for.                               *)
ExactUntilRetrieved ==
  \A s \in DOMAIN sessions, o \in Requests :
    sessions[s].retrieved = 0 => Counted(s, o) = IF Belongs(s, o) THEN 1 ELSE 0

(* Evidence is all there or not at all (CommitIngest, postgres.go:29-65,   *)
(* store.go:49-63): an object has its session, its redaction rows and its  *)
(* ingest event, and none of these exists without the object.              *)
EvidenceIsWhole ==
  /\ \A o \in DOMAIN objects :
       /\ objects[o].session \in DOMAIN sessions
       /\ RedactionRows(objects[o]) \subseteq redactions
       /\ \E e \in events : e.type = "object_ingested" /\ e.object = o
  /\ \A s \in DOMAIN sessions : \E o \in Requests : Belongs(s, o)
  /\ \A row \in redactions :
       row.object \in DOMAIN objects /\ row \in RedactionRows(objects[row.object])
  /\ \A e \in events : e.object \in DOMAIN objects

(* Every row hangs together inside one tenant and workspace, and what a    *)
(* handler builds or reads, and so what it returns, is in its caller's     *)
(* (architecture.md:34, "Every lookup is constrained by authenticated      *)
(* tenant and workspace").                                                 *)
StaysInScope ==
  /\ \A o \in DOMAIN objects :
       Visible(sessions, objects[o].scope, objects[o].session)
  /\ \A row \in redactions \cup events :
       Visible(objects, row.scope, row.object)
  /\ \A r \in Requests :
       held[r] # Nothing => held[r].scope = caller[r]

(* An acknowledged ingest can be retrieved from then on by its caller, and *)
(* yields the text that was ingested (README.md:3, "keeps source material  *)
(* retrievable through durable `ctx://` references").                      *)
AcknowledgedIngestIsRetrievable ==
  \A r \in Requests :
    pc[r] = "ingested" /\ StoreRawMode # "none" =>
      Retrievable(caller[r], r) /\ objects[r].text = held[r].text

(* Lost updates may make the counters too low, never too high: an object   *)
(* is not counted as retrieved more often than requests retrieved it, nor  *)
(* its session more often than requests retrieved from it.                 *)
RetrievalsNeverOvercounted ==
  /\ \A o \in DOMAIN objects : objects[o].retrieved <= Cardinality(Retrievers(o))
  /\ \A s \in DOMAIN sessions :
       sessions[s].retrieved <=
         Cardinality(SessionRetrievers(s))

(* When no store call fails, a retrieval that has answered has left its    *)
(* mark for good: neither a racing retrieval nor a racing ingest brings    *)
(* the counters back to zero, and the audit event is there.                *)
RetrievalLeavesItsMark ==
  ~Faults => \A r \in Requests : pc[r] = "retrieved" =>
    /\ objects[held[r].id].retrieved > 0
    /\ sessions[held[r].session].retrieved > 0
    /\ EventOf(r, "object_retrieved") \in events

(* The tables seen as a ledger of evidence: every object with the kinds of *)
(* its redaction rows, and every answer with what it returned.             *)
LedgerOf ==
  {[id |-> o, session |-> objects[o].session, scope |-> objects[o].scope,
    text |-> objects[o].text,
    kinds |-> {row.kind : row \in {x \in redactions : x.object = o}}]
     : o \in DOMAIN objects}

StatusOf == [r \in Requests |-> IF pc[r] \in Answers THEN pc[r] ELSE "pending"]

ContentOf ==
  [r \in Requests |->
     IF pc[r] \in {"ingested", "retrieved"}
     THEN [id |-> held[r].id, text |-> held[r].text]
     ELSE Nothing]

Ledger == INSTANCE EvidenceLedger
            WITH ledger <- LedgerOf, status <- StatusOf, content <- ContentOf

(* Over Postgres the service implements the ledger: through all races,     *)
(* failed calls, lost acknowledgements and replicas that die, evidence     *)
(* appears whole in a session of its scope, never changes or disappears,   *)
(* and nobody is served anything else than evidence of his scope           *)
(* (service.go:134-204, 232-257; postgres.go:29-65).                       *)
ImplementsLedger == Ledger!Spec

(* What the code's texts say and the code does not keep; see README.       *)

(* service_test.go:11 says that ingesting aggregates: the totals of a      *)
(* session are those of its objects.                                       *)
SessionTotalsExact ==
  \A s \in DOMAIN sessions, o \in Requests :
    Counted(s, o) = IF Belongs(s, o) THEN 1 ELSE 0

-----------------------------------------------------------------------------
(* The inductive invariant.                                                *)

InRetrieval == {"updateObject", "getSession", "updateSession", "addEvent"}

(* What a handler knows at each of its steps.                              *)
HandlerAgrees(r) ==
  /\ pc[r] = "idle" => held[r] = Nothing
  /\ pc[r] \in InFlight \cup {"ingested", "retrieved"} => held[r] # Nothing
  /\ pc[r] \in {"commit", "updateSession"} =>
       snap[r] # Nothing /\ snap[r].scope = caller[r]
  /\ held[r] # Nothing => held[r].scope = caller[r] /\ held[r].raw = StoreRawMode
  /\ pc[r] \in {"commit", "ingested"} => held[r].id = r
  /\ pc[r] = "commit" => CommitApplies(r)
  /\ pc[r] \in InRetrieval =>
       /\ Visible(objects, caller[r], held[r].id)
       /\ objects[held[r].id].session = held[r].session
       /\ objects[held[r].id].text = held[r].text

HandlersAgree == \A r \in Requests : HandlerAgrees(r)

(* An object is the one its request built, in a session of its scope; a    *)
(* session has the object it was opened with.                              *)
ObjectAgrees(o) ==
  /\ objects[o].id = o /\ objects[o].raw = StoreRawMode
  /\ pc[o] \in {"ingested", "failed"}
  /\ held[o] # Nothing /\ held[o].id = o
  /\ objects[o].scope = caller[o]
  /\ objects[o].text = held[o].text /\ objects[o].session = held[o].session
  /\ Visible(sessions, objects[o].scope, objects[o].session)

TablesAgree ==
  /\ \A o \in DOMAIN objects : ObjectAgrees(o)
  /\ \A s \in DOMAIN sessions : Belongs(s, s)

Consistent == TypeOK /\ HandlersAgree /\ TablesAgree

(* TotalsNeverOverclaim, of the rows in the handlers' hands as well.       *)
SnapshotsNeverOverclaim ==
  \A r, o \in Requests :
    /\ pc[r] = "updateSession" =>
         snap[r].totals[o] <= IF Belongs(held[r].session, o) THEN 1 ELSE 0
    /\ pc[r] = "commit" =>
         snap[r].totals[o]
           <= IF o = r \/ Belongs(held[r].session, o) THEN 1 ELSE 0

(* Why ExactUntilRetrieved holds: only UpdateSession writes a row that may *)
(* be stale, and what it writes has been retrieved from.                   *)
StaleRowsAreMarked ==
  \A r \in Requests :
    /\ pc[r] = "updateSession" => snap[r].retrieved > 0
    /\ pc[r] = "commit" /\ IsNewSession(r) => snap[r] = AddTotals(Fresh(r), r)

(* Why RetrievalsNeverOvercounted holds: a session counts no more than the *)
(* retrievals that have read it, and no handler holds a row that does not. *)
SessionReaders(s) ==
  {r \in SessionRetrievers(s) : pc[r] \notin {"updateObject", "getSession"}}

RowsCountReaders ==
  /\ \A o \in DOMAIN objects : objects[o].retrieved <= Cardinality(Retrievers(o))
  /\ \A s \in DOMAIN sessions :
       sessions[s].retrieved <= Cardinality(SessionReaders(s))

HandlersCountReaders ==
  \A r \in Requests :
    /\ pc[r] = "commit" => held[r].retrieved = 0
    /\ pc[r] = "updateObject" =>
         held[r].retrieved <= Cardinality(Retrievers(held[r].id))
    /\ pc[r] \in {"commit", "updateSession"} =>
         snap[r].retrieved <= Cardinality(SessionReaders(held[r].session))

(* Why StaysInScope and EvidenceIsWhole hold: rows of the secondary tables *)
(* come with the object they are about, and stay with it.                  *)
RowsAgree ==
  /\ \A o \in DOMAIN objects :
       /\ RedactionRows(objects[o]) \subseteq redactions
       /\ \E e \in events : e.type = "object_ingested" /\ e.object = o
  /\ \A row \in redactions :
       /\ Visible(objects, row.scope, row.object)
       /\ row \in RedactionRows(objects[row.object])
  /\ \A e \in events : Visible(objects, e.scope, e.object)

=============================================================================
