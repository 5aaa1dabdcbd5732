-------------------------------- MODULE Views --------------------------------
(***************************************************************************)
(* What the list and detail endpoints show while requests are under way:   *)
(* Usage (GET /usage/summary) lists the sessions and then the objects of   *)
(* its scope; Session (GET /sessions/<id>) reads the session, then lists   *)
(* its objects, then its redactions.  One call sees one state of the       *)
(* tables, two calls may see two.  Readers run beside the handlers of      *)
(* ControlPlane, on the same tables.                                       *)
(*                                                                         *)
(* Abstractions.  The sums of Usage are functions of the listed rows, so   *)
(* the rows stand for them.  A reader asks once.                           *)
(***************************************************************************)
EXTENDS ControlPlaneProperties, Sequences

CONSTANTS Readers

VARIABLES
  asker,      \* the scope each reader is authenticated with
  subject,    \* the session it asks for; Nothing for the usage
  left,       \* the store calls it still has to make
  seen        \* what it has been given; Nothing after an error

tablesAndHandlers == vars
readerVars == <<asker, subject, left, seen>>
allVars == <<tablesAndHandlers, readerVars>>

(* Ids and rows given so far; whole if no list came back short; owed, a    *)
(* history: the ingests acknowledged in its scope before its first call.   *)
View == [sessions : SUBSET Requests, totals : SUBSET Requests,
         objects : SUBSET Requests, redactions : SUBSET Redaction,
         whole : BOOLEAN, owed : SUBSET Requests]

ASSUME NothingIsNoView == Nothing \notin View /\ Nothing \notin Requests

Unread == [sessions |-> {}, totals |-> {}, objects |-> {}, redactions |-> {},
           whole |-> TRUE, owed |-> {}]

(* Mutant: the redactions are listed before the objects.                   *)
CallsRedactionsFirst(s) ==
  IF s = Nothing
  THEN <<"ListSessions", "ListObjects">>
  ELSE <<"GetSession", "ListRedactions", "ListObjects">>

(* Usage and Session, in the order of their store calls.                   *)
Calls(s) ==
  IF s = Nothing
  THEN <<"ListSessions", "ListObjects">>
  ELSE <<"GetSession", "ListObjects", "ListRedactions">>

ViewsTypeOK ==
  /\ asker \in [Readers -> Scopes]
  /\ subject \in [Readers -> Requests \cup {Nothing}]
  /\ \A q \in Readers :
       \E n \in 0 .. Len(Calls(subject[q])) :
         left[q] = SubSeq(Calls(subject[q]), n + 1, Len(Calls(subject[q])))
  /\ seen \in [Readers -> View \cup {Nothing}]

-----------------------------------------------------------------------------
(* The store calls.                                                        *)

(* A list over Postgres whose query or connection fails returns the rows   *)
(* it has so far, and no error.                                            *)
Listings(rows) == IF MayFail THEN SUBSET rows ELSE {rows}

InSession(row, s) == s = Nothing \/ row.session = s

VisibleSessions(sc) == {s \in DOMAIN sessions : Visible(sessions, sc, s)}

VisibleObjects(sc, s) ==
  {o \in DOMAIN objects : Visible(objects, sc, o) /\ InSession(objects[o], s)}

VisibleRedactions(sc, s) ==
  {row \in redactions : row.scope = sc /\ InSession(row, s)}

(* The objects a session row counts.                                       *)
TotalsOf(s) == {o \in Requests : sessions[s].totals[o] > 0}

NextCall(q, call) == left[q] # << >> /\ Head(left[q]) = call

Acknowledged(sc) == {r \in Requests : pc[r] = "ingested" /\ caller[r] = sc}

Take(q, view) ==
  /\ left' = [left EXCEPT ![q] = Tail(@)]
  /\ seen' = [seen EXCEPT ![q] =
       [view EXCEPT !.owed = IF left[q] = Calls(subject[q])
                             THEN Acknowledged(asker[q]) ELSE @]]
  /\ UNCHANGED <<asker, subject>>

ListSessions(q) ==
  LET rows == VisibleSessions(asker[q]) IN
  \E listed \in Listings(rows) :
    /\ NextCall(q, "ListSessions")
    /\ Take(q, [seen[q] EXCEPT !.sessions = listed, !.whole = @ /\ listed = rows])

ListObjects(q) ==
  LET rows == VisibleObjects(asker[q], subject[q]) IN
  \E listed \in Listings(rows) :
    /\ NextCall(q, "ListObjects")
    /\ Take(q, [seen[q] EXCEPT !.objects = listed, !.whole = @ /\ listed = rows])

ListRedactions(q) ==
  LET rows == VisibleRedactions(asker[q], subject[q]) IN
  \E listed \in Listings(rows) :
    /\ NextCall(q, "ListRedactions")
    /\ Take(q, [seen[q] EXCEPT !.redactions = listed, !.whole = @ /\ listed = rows])

ReadSession(q) ==
  /\ NextCall(q, "GetSession")
  /\ Visible(sessions, asker[q], subject[q])
  /\ Take(q, [seen[q] EXCEPT !.sessions = {subject[q]},
                             !.totals = TotalsOf(subject[q])])

Dismiss(q) ==
  /\ left' = [left EXCEPT ![q] = << >>]
  /\ seen' = [seen EXCEPT ![q] = Nothing]
  /\ UNCHANGED <<asker, subject>>

(* Mutant: a failed read is put back in front of the calls.                *)
ReadSessionAgain(q) ==
  /\ NextCall(q, "GetSession")
  /\ ~Visible(sessions, asker[q], subject[q])
  /\ left' = [left EXCEPT ![q] = <<"GetSession">> \o @]
  /\ UNCHANGED <<asker, subject, seen>>

(* 404, or the read fails.                                                 *)
ReadSessionFails(q) ==
  /\ NextCall(q, "GetSession")
  /\ MayFail \/ ~Visible(sessions, asker[q], subject[q])
  /\ Dismiss(q)

Read(q) ==
  \/ ListSessions(q) \/ ListObjects(q) \/ ListRedactions(q)
  \/ ReadSession(q) \/ ReadSessionFails(q)

AllFinished ==
  /\ \A r \in Requests : pc[r] \in Answers
  /\ \A q \in Readers : left[q] = << >>
  /\ UNCHANGED allVars

ViewsInit ==
  /\ Init
  /\ asker \in [Readers -> Scopes]
  /\ subject \in [Readers -> Requests \cup {Nothing}]
  /\ left = [q \in Readers |-> Calls(subject[q])]
  /\ seen = [q \in Readers |-> Unread]

ViewsNext ==
  \/ /\ \E r \in Requests : Refuse(r) \/ Ingest(r) \/ Retrieve(r) \/ Abort(r)
     /\ UNCHANGED readerVars
  \/ /\ \E q \in Readers : Read(q)
     /\ UNCHANGED tablesAndHandlers
  \/ AllFinished

ViewsSpec == ViewsInit /\ [][ViewsNext]_allVars

-----------------------------------------------------------------------------
(* Properties.                                                             *)

Answered(q) == left[q] = << >> /\ seen[q] # Nothing

AnsweredWhole(q) == Answered(q) /\ seen[q].whole

(* Unless a list came back short, a view is covered by its own lists: the  *)
(* usage shows no session without an object (service.go:259-263), the      *)
(* totals of a detail sum over listed objects only, and every redaction of *)
(* a listed object is listed (service.go:208-212).  What is ingested       *)
(* between two calls can only add to the later list.                       *)
ViewsAreCovered ==
  \A q \in Readers : AnsweredWhole(q) =>
    LET view == seen[q] IN
    IF subject[q] = Nothing
    THEN Cardinality(view.sessions) <= Cardinality(view.objects)
    ELSE /\ view.totals \subseteq view.objects
         /\ \A o \in view.objects : RedactionRows(held[o]) \subseteq view.redactions

(* Nobody is ever shown what was ingested from another tenant or workspace *)
(* than his, nor objects of another session than he asked for              *)
(* (store.go:64, 87, 125, 142; postgres.go:138, 184, 216).                 *)
ViewsStayInScope ==
  \A q \in Readers : seen[q] # Nothing =>
    /\ \A o \in seen[q].sessions \cup seen[q].objects
                 \cup {row.object : row \in seen[q].redactions} :
         caller[o] = asker[q]
    /\ \A o \in seen[q].objects : InSession(held[o], subject[q])

(* Whoever asks after an ingest was acknowledged finds its object in the   *)
(* usage, and in the detail of its session, unless a list came back short  *)
(* (service.go:197, 207-213, 258-260).                                     *)
AcknowledgedIsListed ==
  \A q \in Readers :
    AnsweredWhole(q) =>
      {o \in seen[q].owed : InSession(held[o], subject[q])}
        \subseteq seen[q].objects

=============================================================================
