------------------------------ MODULE ViewsProofs ------------------------------
(***************************************************************************)
(* What readers are shown, for every number of requests and readers, over  *)
(* either store, however handlers and readers interleave and whatever      *)
(* lists come back short.                                                  *)
(***************************************************************************)
EXTENDS Views, ControlPlaneProofs

Usage == <<"ListSessions", "ListObjects">>
Detail == <<"GetSession", "ListObjects", "ListRedactions">>
LastOfUsage == <<"ListObjects">>
RestOfDetail == <<"ListObjects", "ListRedactions">>
LastOfDetail == <<"ListRedactions">>

(* The calls a reader may still have before it.                            *)
Ahead(s) ==
  IF s = Nothing
  THEN {Usage, LastOfUsage, << >>}
  ELSE {Detail, RestOfDetail, LastOfDetail, << >>}

(* What is shown is in the tables, in scope, and stays there.              *)
Fits(q) ==
  /\ seen[q].owed \subseteq Acknowledged(asker[q])
  /\ \A s \in seen[q].sessions : Visible(sessions, asker[q], s)
  /\ \A o \in seen[q].objects :
       Visible(objects, asker[q], o) /\ InSession(objects[o], subject[q])
  /\ \A row \in seen[q].redactions : Visible(objects, asker[q], row.object)

(* The acknowledged ingests that the reader's question is about.           *)
Expected(q) == {o \in seen[q].owed : InSession(held[o], subject[q])}

UsageCovered(q) ==
  left[q] = << >> /\ seen[q].whole =>
    seen[q].sessions \cup Expected(q) \subseteq seen[q].objects

DetailCovered(q) ==
  /\ left[q] = RestOfDetail =>
       \A o \in seen[q].totals :
         Visible(objects, asker[q], o) /\ InSession(objects[o], subject[q])
  /\ left[q] \in {LastOfDetail, << >>} /\ seen[q].whole =>
       seen[q].totals \cup Expected(q) \subseteq seen[q].objects
  /\ left[q] = << >> /\ seen[q].whole =>
       \A o \in seen[q].objects : RedactionRows(held[o]) \subseteq seen[q].redactions

ReaderAgrees(q) ==
  /\ left[q] \in Ahead(subject[q])
  /\ left[q] # << >> => seen[q] # Nothing
  /\ seen[q] # Nothing =>
       /\ Fits(q)
       /\ IF subject[q] = Nothing THEN UsageCovered(q) ELSE DetailCovered(q)

ReadersTyped ==
  /\ asker \in [Readers -> Scopes]
  /\ subject \in [Readers -> Requests \cup {Nothing}]
  /\ DOMAIN left = Readers
  /\ seen \in [Readers -> View \cup {Nothing}]

-----------------------------------------------------------------------------
(* The calls.                                                              *)

LEMMA CallsAhead ==
  /\ Usage # << >> /\ Detail # << >> /\ LastOfUsage # << >>
  /\ RestOfDetail # << >> /\ LastOfDetail # << >>
  /\ LastOfDetail # RestOfDetail /\ Detail # RestOfDetail /\ Detail # LastOfDetail
  /\ Head(Usage) = "ListSessions" /\ Tail(Usage) = LastOfUsage
  /\ Head(LastOfUsage) = "ListObjects" /\ Tail(LastOfUsage) = << >>
  /\ Head(Detail) = "GetSession" /\ Tail(Detail) = RestOfDetail
  /\ Head(RestOfDetail) = "ListObjects" /\ Tail(RestOfDetail) = LastOfDetail
  /\ Head(LastOfDetail) = "ListRedactions" /\ Tail(LastOfDetail) = << >>
  BY DEF Usage, LastOfUsage, Detail, RestOfDetail, LastOfDetail

(* Which call of which view is next.                                       *)
LEMMA WhichCall ==
  ASSUME NEW q \in Readers, left[q] \in Ahead(subject[q])
  PROVE  /\ NextCall(q, "ListSessions") => subject[q] = Nothing /\ left[q] = Usage
         /\ NextCall(q, "GetSession") => subject[q] # Nothing /\ left[q] = Detail
         /\ NextCall(q, "ListRedactions") =>
              subject[q] # Nothing /\ left[q] = LastOfDetail
         /\ NextCall(q, "ListObjects") =>
              \/ subject[q] = Nothing /\ left[q] = LastOfUsage
              \/ subject[q] # Nothing /\ left[q] = RestOfDetail
  BY CallsAhead DEF Ahead, NextCall

(* A call moves its own reader on.                                         *)
LEMMA TakeGives ==
  ASSUME ReadersTyped, NEW q \in Readers, NEW view \in View, Take(q, view)
  PROVE  /\ left'[q] = Tail(left[q]) /\ subject' = subject /\ asker' = asker
         /\ seen'[q].sessions = view.sessions /\ seen'[q].totals = view.totals
         /\ seen'[q].objects = view.objects /\ seen'[q].redactions = view.redactions
         /\ seen'[q].whole = view.whole
         /\ seen'[q].owed \in {view.owed, Acknowledged(asker[q])}
         /\ \A p \in Readers \ {q} : left'[p] = left[p] /\ seen'[p] = seen[p]
         /\ DOMAIN left' = Readers /\ seen' \in [Readers -> View \cup {Nothing}]
         /\ seen'[q] \in View
  <1>1. seen' = [seen EXCEPT ![q] =
          [view EXCEPT !.owed = IF left[q] = Calls(subject[q])
                                THEN Acknowledged(asker[q]) ELSE view.owed]]
    BY DEF Take
  <1> DEFINE shown == [view EXCEPT !.owed = IF left[q] = Calls(subject[q])
                                            THEN Acknowledged(asker[q]) ELSE view.owed]
  <1>2. /\ shown \in View
        /\ shown.sessions = view.sessions /\ shown.totals = view.totals
        /\ shown.objects = view.objects /\ shown.redactions = view.redactions
        /\ shown.whole = view.whole
        /\ shown.owed \in {view.owed, Acknowledged(asker[q])}
    BY DEF View, Acknowledged
  <1>3. seen'[q] = shown
    BY <1>1 DEF ReadersTyped
  <1>4. \A p \in Readers \ {q} : left'[p] = left[p] /\ seen'[p] = seen[p]
    BY DEF Take, ReadersTyped
  <1>5. left'[q] = Tail(left[q]) /\ DOMAIN left' = Readers /\ subject' = subject /\ asker' = asker
    BY DEF Take, ReadersTyped
  <1>6. seen' \in [Readers -> View \cup {Nothing}]
    BY <1>1, <1>2 DEF ReadersTyped
  <1> HIDE DEF shown
  <1> QED
    BY <1>2, <1>3, <1>4, <1>5, <1>6

(* What the tables say of an object is what its author knows of it.        *)
LEMMA AuthorsKnow ==
  ASSUME Consistent, NEW o \in DOMAIN objects
  PROVE  /\ o \in Requests /\ objects[o].scope = caller[o]
         /\ objects[o].session = held[o].session
         /\ RedactionRows(objects[o]) = RedactionRows(held[o])
         /\ Visible(sessions, caller[o], held[o].session)
  <1>1. ObjectAgrees(o) /\ o \in Requests
    BY DEF Consistent, TablesAgree, TypeOK, IsTable
  <1>2. held[o].scope = caller[o] /\ held[o].id = o
    BY <1>1 DEF Consistent, HandlersAgree, HandlerAgrees, ObjectAgrees
  <1> QED
    BY <1>1, <1>2 DEF ObjectAgrees, RedactionRows

-----------------------------------------------------------------------------
(* Handlers beside the readers.                                            *)

(* A reader that rests keeps what it knows while nothing is lost.          *)
LEMMA RestingReader ==
  ASSUME Consistent, [Serving]_vars, AcknowledgedIsStored, NEW q \in Readers, ReaderAgrees(q),
         left'[q] = left[q], seen'[q] = seen[q], asker'[q] = asker[q],
         subject'[q] = subject[q]
  PROVE  ReaderAgrees(q)'
  <1>1. Kept /\ caller' = caller
    BY ServingKeeps DEF Serving, Refuse, Ingest, IngestNewSession, IngestIntoSession, Prepare,
       CommitIngest, CommitFails, Retrieve, BeginRetrieve, UpdateObject, GetSession,
       GetSessionFails, UpdateSession, AddEvent, Abort, AllAnswered, vars
  <1>2. ASSUME NEW o \in DOMAIN objects
        PROVE  pc'[o] = pc[o] /\ held'[o] = held[o]
               /\ RedactionRows(held[o])' = RedactionRows(held[o])
    BY <1>1, ServingRests DEF RedactionRows
  <1>3. CASE seen[q] = Nothing
    BY <1>3 DEF ReaderAgrees
  <1>4. CASE seen[q] # Nothing
    <2>1. Fits(q)
      BY <1>4 DEF ReaderAgrees
    <2>2. \A o \in seen[q].objects \cup seen[q].owed : o \in DOMAIN objects
      BY <2>1 DEF Fits, Visible, Acknowledged, AcknowledgedIsStored
    <2>3. Fits(q)'
      BY <1>1, <1>2, <2>1, <2>2 DEF Fits, Visible, Kept, InSession, Acknowledged
    <2>4. Expected(q)' = Expected(q)
      BY <1>2, <2>2 DEF Expected, InSession
    <2>5. CASE subject[q] = Nothing
      BY <1>4, <2>3, <2>4, <2>5 DEF ReaderAgrees, UsageCovered
    <2>6. CASE subject[q] # Nothing
      <3>1. left[q] = RestOfDetail => \A o \in seen[q].totals :
              Visible(objects, asker[q], o)' /\ InSession(objects'[o], subject[q])
        BY <1>1, <1>4, <2>6 DEF ReaderAgrees, DetailCovered, Visible, Kept, InSession
      <3>2. left[q] = << >> /\ seen[q].whole => \A o \in seen[q].objects :
              RedactionRows(held[o])' \subseteq seen[q].redactions
        BY <1>2, <1>4, <2>2, <2>6 DEF ReaderAgrees, DetailCovered
      <3>3. DetailCovered(q)'
        BY <1>4, <2>4, <2>6, <3>1, <3>2 DEF ReaderAgrees, DetailCovered
      <3> QED
        BY <1>4, <2>3, <2>6, <3>3 DEF ReaderAgrees
    <2> QED
      BY <2>5, <2>6
  <1> QED
    BY <1>3, <1>4

(* What is acknowledged is in the table of objects.                        *)
LEMMA AcknowledgedServe ==
  ASSUME Consistent, AcknowledgedIsStored, [Serving]_vars
  PROVE  AcknowledgedIsStored'
  <1> SUFFICES ASSUME NEW r \in Requests, pc'[r] = "ingested"
               PROVE  r \in DOMAIN objects'
    BY DEF AcknowledgedIsStored
  <1>1. Kept
    BY ServingKeeps
  <1>2. CASE pc[r] = "ingested"
    BY <1>1, <1>2 DEF AcknowledgedIsStored, Kept
  <1>3. CASE pc[r] # "ingested"
    <2>1. CommitIngest(r)
      BY <1>3 DEF Serving, Refuse, Ingest, IngestNewSession, IngestIntoSession, Prepare,
         CommitIngest, CommitFails, Retrieve, BeginRetrieve, UpdateObject, GetSession,
         GetSessionFails, UpdateSession, AddEvent, Abort, AllAnswered, vars, Goto,
         Consistent, TypeOK
    <2> QED
      BY <2>1 DEF CommitIngest, Put
  <1> QED
    BY <1>2, <1>3

-----------------------------------------------------------------------------
(* The readers' own calls.                                                 *)

ServiceSound == Consistent /\ RowsAgree /\ TotalsNeverOverclaim /\ AcknowledgedIsStored

(* A list that is not short has everything in it that was in scope.        *)
LEMMA ListSessionsShows ==
  ASSUME ServiceSound, ReadersTyped, NEW q \in Readers, ReaderAgrees(q), ListSessions(q),
         UNCHANGED vars
  PROVE  ReaderAgrees(q)'
  <1>1. PICK listed \in Listings(VisibleSessions(asker[q])) :
          Take(q, [seen[q] EXCEPT !.sessions = listed,
                     !.whole = @ /\ listed = VisibleSessions(asker[q])])
    BY DEF ListSessions
  <1>2. listed \subseteq VisibleSessions(asker[q])
    BY DEF Listings
  <1>3. subject[q] = Nothing /\ left[q] = Usage /\ seen[q] # Nothing
    BY WhichCall, CallsAhead DEF ListSessions, ReaderAgrees
  <1> DEFINE view == [seen[q] EXCEPT !.sessions = listed,
                        !.whole = @ /\ listed = VisibleSessions(asker[q])]
  <1>4. seen[q] \in View
    BY <1>3 DEF ReadersTyped
  <1>5. /\ view \in View /\ view.sessions = listed /\ view.objects = seen[q].objects
        /\ view.redactions = seen[q].redactions /\ view.owed = seen[q].owed
    BY <1>2, <1>4 DEF View, VisibleSessions, ServiceSound, Consistent, TypeOK, IsTable
  <1> HIDE DEF view
  <1>6. Take(q, view)
    BY <1>1 DEF view
  <1>7. /\ left'[q] = LastOfUsage /\ subject' = subject /\ asker' = asker
        /\ seen'[q].sessions = listed /\ seen'[q].objects = seen[q].objects
        /\ seen'[q].redactions = seen[q].redactions
        /\ seen'[q].owed \subseteq Acknowledged(asker[q])
    BY <1>3, <1>5, <1>6, TakeGives, CallsAhead DEF ReaderAgrees, Fits
  <1>8. Fits(q)'
    BY <1>2, <1>3, <1>7 DEF ReaderAgrees, Fits, Visible, InSession, VisibleSessions,
       Acknowledged, vars
  <1>9. UsageCovered(q)'
    BY <1>7, CallsAhead DEF UsageCovered
  <1> QED
    BY <1>3, <1>7, <1>8, <1>9, TakeGives, <1>5, <1>6, CallsAhead, NothingIsNoView
    DEF ReaderAgrees, Ahead

LEMMA ListObjectsShows ==
  ASSUME ServiceSound, ReadersTyped, NEW q \in Readers, ReaderAgrees(q), ListObjects(q),
         UNCHANGED vars
  PROVE  ReaderAgrees(q)'
  <1> DEFINE rows == VisibleObjects(asker[q], subject[q])
  <1>1. PICK listed \in Listings(rows) :
          Take(q, [seen[q] EXCEPT !.objects = listed, !.whole = @ /\ listed = rows])
    BY DEF ListObjects
  <1>2. listed \subseteq rows
    BY DEF Listings
  <1>3. /\ seen[q] # Nothing
        /\ \/ subject[q] = Nothing /\ left[q] = LastOfUsage
           \/ subject[q] # Nothing /\ left[q] = RestOfDetail
    BY WhichCall, CallsAhead DEF ListObjects, ReaderAgrees
  <1> DEFINE view == [seen[q] EXCEPT !.objects = listed, !.whole = @ /\ listed = rows]
  <1>4. seen[q] \in View
    BY <1>3 DEF ReadersTyped
  <1>5. /\ view \in View /\ view.sessions = seen[q].sessions /\ view.objects = listed
        /\ view.totals = seen[q].totals
        /\ view.redactions = seen[q].redactions /\ view.owed = seen[q].owed
        /\ view.whole => listed = rows
    BY <1>2, <1>4 DEF View, VisibleObjects, ServiceSound, Consistent, TypeOK, IsTable
  <1> HIDE DEF view
  <1>6. Take(q, view)
    BY <1>1 DEF view
  <1>7. /\ left'[q] = Tail(left[q]) /\ subject' = subject /\ asker' = asker
        /\ seen'[q].sessions = seen[q].sessions /\ seen'[q].objects = listed
        /\ seen'[q].totals = seen[q].totals
        /\ seen'[q].redactions = seen[q].redactions
        /\ seen'[q].owed \subseteq Acknowledged(asker[q])
        /\ seen'[q].whole => listed = rows
        /\ seen'[q] # Nothing
    BY <1>3, <1>5, <1>6, TakeGives, NothingIsNoView DEF ReaderAgrees, Fits
  <1>8. Fits(q)'
    BY <1>2, <1>3, <1>7 DEF ReaderAgrees, Fits, Visible, InSession, VisibleObjects,
       Acknowledged, vars
  <1>9. Expected(q)' \subseteq rows
    <2> SUFFICES ASSUME NEW o \in Expected(q)' PROVE o \in rows
      OBVIOUS
    <2>1. o \in DOMAIN objects /\ caller[o] = asker[q] /\ InSession(held[o], subject[q])
      BY <1>7 DEF Expected, Acknowledged, ServiceSound, AcknowledgedIsStored, vars, InSession
    <2> QED
      BY <2>1, AuthorsKnow DEF VisibleObjects, Visible, InSession, ServiceSound
  <1>10. CASE subject[q] = Nothing
    <2>1. seen[q].sessions \subseteq rows
      <3> SUFFICES ASSUME NEW s \in seen[q].sessions PROVE s \in rows
        OBVIOUS
      <3>1. Visible(sessions, asker[q], s)
        BY <1>3 DEF ReaderAgrees, Fits
      <3>2. s \in DOMAIN objects /\ objects[s].session = s
        BY <3>1 DEF Visible, ServiceSound, Consistent, TablesAgree, Belongs
      <3>3. objects[s].scope = asker[q]
        BY <3>1, <3>2, AuthorsKnow DEF Visible, ServiceSound
      <3> QED
        BY <1>10, <3>2, <3>3 DEF VisibleObjects, Visible, InSession
    <2>2. UsageCovered(q)'
      BY <1>7, <1>9, <2>1 DEF UsageCovered
    <2>3. left'[q] = << >>
      BY <1>3, <1>7, <1>10, CallsAhead
    <2> QED
      BY <1>7, <1>8, <1>10, <2>2, <2>3 DEF ReaderAgrees, Ahead
  <1>11. CASE subject[q] # Nothing
    <2>1. left'[q] = LastOfDetail
      BY <1>3, <1>7, <1>11, CallsAhead
    <2>2. seen[q].totals \subseteq rows
      <3>1. \A o \in seen[q].totals :
              Visible(objects, asker[q], o) /\ InSession(objects[o], subject[q])
        BY <1>3, <1>11 DEF ReaderAgrees, DetailCovered
      <3> QED
        BY <3>1 DEF VisibleObjects, Visible
    <2>3. DetailCovered(q)'
      BY <1>7, <1>9, <2>1, <2>2, CallsAhead DEF DetailCovered
    <2> QED
      BY <1>7, <1>8, <1>11, <2>1, <2>3, CallsAhead DEF ReaderAgrees, Ahead
  <1> QED
    BY <1>10, <1>11

LEMMA ListRedactionsShows ==
  ASSUME ServiceSound, ReadersTyped, NEW q \in Readers, ReaderAgrees(q), ListRedactions(q),
         UNCHANGED vars
  PROVE  ReaderAgrees(q)'
  <1> DEFINE rows == VisibleRedactions(asker[q], subject[q])
  <1>1. PICK listed \in Listings(rows) :
          Take(q, [seen[q] EXCEPT !.redactions = listed, !.whole = @ /\ listed = rows])
    BY DEF ListRedactions
  <1>2. listed \subseteq rows
    BY DEF Listings
  <1>3. seen[q] # Nothing /\ subject[q] # Nothing /\ left[q] = LastOfDetail
    BY WhichCall, CallsAhead DEF ListRedactions, ReaderAgrees
  <1> DEFINE view == [seen[q] EXCEPT !.redactions = listed, !.whole = @ /\ listed = rows]
  <1>4. seen[q] \in View
    BY <1>3 DEF ReadersTyped
  <1>5. /\ view \in View /\ view.sessions = seen[q].sessions
        /\ view.objects = seen[q].objects /\ view.totals = seen[q].totals
        /\ view.redactions = listed /\ view.owed = seen[q].owed
        /\ view.whole => seen[q].whole /\ listed = rows
    BY <1>2, <1>4 DEF View, VisibleRedactions, ServiceSound, Consistent, TypeOK
  <1> HIDE DEF view
  <1>6. Take(q, view)
    BY <1>1 DEF view
  <1>7. /\ left'[q] = << >> /\ subject' = subject /\ asker' = asker
        /\ seen'[q].sessions = seen[q].sessions /\ seen'[q].objects = seen[q].objects
        /\ seen'[q].totals = seen[q].totals /\ seen'[q].redactions = listed
        /\ seen'[q].owed \in {seen[q].owed, Acknowledged(asker[q])}
        /\ seen'[q].whole => seen[q].whole /\ listed = rows
        /\ seen'[q] # Nothing
    BY <1>3, <1>5, <1>6, TakeGives, CallsAhead, NothingIsNoView
  <1>8. seen'[q].owed = seen[q].owed
    <2>1. left[q] # Calls(subject[q])
      BY <1>3, CallsAhead DEF Calls, Detail
    <2> QED
      BY <1>5, <1>6, <2>1 DEF Take, ReadersTyped, View
  <1>9. \A row \in listed : Visible(objects, asker[q], row.object)
    BY <1>2 DEF VisibleRedactions, ServiceSound, RowsAgree
  <1>10. Fits(q)'
    BY <1>3, <1>7, <1>8, <1>9 DEF ReaderAgrees, Fits, Visible, InSession,
       Acknowledged, vars
  <1>11. \A o \in seen[q].objects : RedactionRows(held[o]) \subseteq rows
    <2> SUFFICES ASSUME NEW o \in seen[q].objects, NEW row \in RedactionRows(held[o])
                 PROVE  row \in rows
      OBVIOUS
    <2>1. o \in DOMAIN objects /\ objects[o].scope = asker[q] /\ objects[o].session = subject[q]
      BY <1>3 DEF ReaderAgrees, Fits, Visible, InSession
    <2>2. row \in RedactionRows(objects[o]) /\ row \in redactions
      BY <2>1, AuthorsKnow DEF ServiceSound, RowsAgree
    <2>3. row.scope = asker[q] /\ row.session = subject[q]
      BY <2>1, <2>2 DEF RedactionRows
    <2> QED
      BY <2>2, <2>3 DEF VisibleRedactions, InSession
  <1>12. Expected(q)' = Expected(q) /\ \A o : RedactionRows(held[o])' = RedactionRows(held[o])
    BY <1>7, <1>8 DEF Expected, InSession, RedactionRows, vars
  <1>13. DetailCovered(q)'
    BY <1>3, <1>7, <1>8, <1>11, <1>12, CallsAhead DEF ReaderAgrees, DetailCovered
  <1> QED
    BY <1>3, <1>7, <1>10, <1>13 DEF ReaderAgrees, Ahead

LEMMA ReadSessionShows ==
  ASSUME ServiceSound, ReadersTyped, NEW q \in Readers, ReaderAgrees(q), ReadSession(q),
         UNCHANGED vars
  PROVE  ReaderAgrees(q)'
  <1> DEFINE s == subject[q]
  <1> DEFINE view == [seen[q] EXCEPT !.sessions = {s}, !.totals = TotalsOf(s)]
  <1>1. Take(q, view) /\ Visible(sessions, asker[q], s)
    BY DEF ReadSession
  <1>2. seen[q] # Nothing /\ s # Nothing /\ left[q] = Detail
    BY WhichCall, CallsAhead DEF ReadSession, ReaderAgrees
  <1>3. seen[q] \in View /\ s \in Requests
    BY <1>2 DEF ReadersTyped
  <1>4. /\ view \in View /\ view.sessions = {s} /\ view.objects = seen[q].objects
        /\ view.totals = TotalsOf(s) /\ view.redactions = seen[q].redactions
        /\ view.owed = seen[q].owed
    BY <1>3 DEF View, TotalsOf
  <1> HIDE DEF view
  <1>5. /\ left'[q] = RestOfDetail /\ subject' = subject /\ asker' = asker
        /\ seen'[q].sessions = {s} /\ seen'[q].objects = seen[q].objects
        /\ seen'[q].totals = TotalsOf(s) /\ seen'[q].redactions = seen[q].redactions
        /\ seen'[q].owed \subseteq Acknowledged(asker[q])
        /\ seen'[q] # Nothing
    BY <1>1, <1>2, <1>4, TakeGives, CallsAhead, NothingIsNoView DEF ReaderAgrees, Fits
  <1>6. Fits(q)'
    BY <1>1, <1>2, <1>5 DEF ReaderAgrees, Fits, Visible, InSession, Acknowledged, vars
  <1>7. ASSUME NEW o \in TotalsOf(s)
        PROVE  Visible(objects, asker[q], o) /\ InSession(objects[o], s)
    <2>1. o \in Requests /\ sessions[s].totals[o] > 0 /\ s \in DOMAIN sessions
      BY <1>1 DEF TotalsOf, Visible
    <2>2. sessions[s].totals[o] \in Nat
      BY <2>1 DEF ServiceSound, Consistent, TypeOK, IsTable, Session
    <2>3. Belongs(s, o)
      BY <2>1, <2>2 DEF ServiceSound, TotalsNeverOverclaim, Counted
    <2>4. objects[o].scope = sessions[s].scope
      BY <2>3, AuthorsKnow DEF Belongs, ServiceSound, Visible
    <2> QED
      BY <1>1, <2>3, <2>4 DEF Belongs, Visible, InSession
  <1>8. DetailCovered(q)'
    BY <1>5, <1>7, CallsAhead DEF DetailCovered, Visible, InSession, vars
  <1> QED
    BY <1>2, <1>5, <1>6, <1>8, CallsAhead DEF ReaderAgrees, Ahead

(* The invariant of the readers.                                           *)
ReadersAgree ==
  ReadersTyped /\ AcknowledgedIsStored /\ \A q \in Readers : ReaderAgrees(q)

LEMMA ReadersInit == ViewsInit => ReadersAgree
  <1> SUFFICES ASSUME ViewsInit PROVE ReadersAgree
    OBVIOUS
  <1>1. Unread \in View
    BY DEF Unread, View
  <1>2. \A s : Calls(s) = IF s = Nothing THEN Usage ELSE Detail
    BY DEF Calls, Usage, Detail
  <1>4. ReadersTyped
    BY <1>1 DEF ViewsInit, ReadersTyped
  <1>5. AcknowledgedIsStored
    BY DEF ViewsInit, Init, AcknowledgedIsStored
  <1>6. ASSUME NEW q \in Readers PROVE ReaderAgrees(q)
    <2>1. /\ seen[q] = Unread /\ Unread # Nothing
          /\ left[q] = IF subject[q] = Nothing THEN Usage ELSE Detail
      BY <1>1, <1>2, NothingIsNoView DEF ViewsInit
    <2>2. Fits(q)
      BY <2>1 DEF Fits, Unread
    <2>3. subject[q] = Nothing => UsageCovered(q)
      BY <2>1, CallsAhead DEF UsageCovered
    <2>4. subject[q] # Nothing => DetailCovered(q)
      BY <2>1, CallsAhead DEF DetailCovered
    <2> QED
      BY <2>1, <2>2, <2>3, <2>4, CallsAhead DEF ReaderAgrees, Ahead
  <1> QED
    BY <1>4, <1>5, <1>6 DEF ReadersAgree

(* A call takes, or dismisses, for its own reader only.                    *)
LEMMA OneReads ==
  ASSUME ServiceSound, ReadersTyped, NEW q \in Readers, ReaderAgrees(q), Read(q)
  PROVE  \/ Dismiss(q)
         \/ \E view \in View : Take(q, view)
  <1>1. \A call : NextCall(q, call) => seen[q] \in View
    BY DEF NextCall, ReaderAgrees, ReadersTyped
  <1>2. \A rows : Listings(rows) \subseteq SUBSET rows
    BY DEF Listings
  <1>3. /\ VisibleSessions(asker[q]) \subseteq Requests
        /\ VisibleObjects(asker[q], subject[q]) \subseteq Requests
        /\ VisibleRedactions(asker[q], subject[q]) \subseteq Redaction
    BY DEF VisibleSessions, VisibleObjects, VisibleRedactions, ServiceSound, Consistent, TypeOK, IsTable
  <1>4. CASE ListSessions(q)
    <2>1. PICK listed \in Listings(VisibleSessions(asker[q])) :
            Take(q, [seen[q] EXCEPT !.sessions = listed,
                       !.whole = @ /\ listed = VisibleSessions(asker[q])])
      BY <1>4 DEF ListSessions
    <2>2. seen[q] \in View /\ listed \subseteq Requests
      BY <1>1, <1>2, <1>3, <1>4 DEF ListSessions
    <2>3. [seen[q] EXCEPT !.sessions = listed,
             !.whole = @ /\ listed = VisibleSessions(asker[q])] \in View
      BY <2>2 DEF View
    <2> QED
      BY <2>1, <2>3
  <1>5. CASE ListObjects(q)
    <2>1. PICK listed \in Listings(VisibleObjects(asker[q], subject[q])) :
            Take(q, [seen[q] EXCEPT !.objects = listed,
                       !.whole = @ /\ listed = VisibleObjects(asker[q], subject[q])])
      BY <1>5 DEF ListObjects
    <2>2. seen[q] \in View /\ listed \subseteq Requests
      BY <1>1, <1>2, <1>3, <1>5 DEF ListObjects
    <2>3. [seen[q] EXCEPT !.objects = listed,
             !.whole = @ /\ listed = VisibleObjects(asker[q], subject[q])] \in View
      BY <2>2 DEF View
    <2> QED
      BY <2>1, <2>3
  <1>6. CASE ListRedactions(q)
    <2>1. PICK listed \in Listings(VisibleRedactions(asker[q], subject[q])) :
            Take(q, [seen[q] EXCEPT !.redactions = listed,
                       !.whole = @ /\ listed = VisibleRedactions(asker[q], subject[q])])
      BY <1>6 DEF ListRedactions
    <2>2. seen[q] \in View /\ listed \subseteq Redaction
      BY <1>1, <1>2, <1>3, <1>6 DEF ListRedactions
    <2>3. [seen[q] EXCEPT !.redactions = listed,
             !.whole = @ /\ listed = VisibleRedactions(asker[q], subject[q])] \in View
      BY <2>2 DEF View
    <2> QED
      BY <2>1, <2>3
  <1>7. CASE ReadSession(q)
    <2>1. Take(q, [seen[q] EXCEPT !.sessions = {subject[q]}, !.totals = TotalsOf(subject[q])])
      BY <1>7 DEF ReadSession
    <2>2. subject[q] \in Requests
      BY <1>7, WhichCall DEF ReadSession, ReaderAgrees, ReadersTyped
    <2>3. [seen[q] EXCEPT !.sessions = {subject[q]}, !.totals = TotalsOf(subject[q])] \in View
      BY <1>1, <1>7, <2>2 DEF ReadSession, View, TotalsOf
    <2> QED
      BY <2>1, <2>3
  <1>8. CASE ReadSessionFails(q)
    BY <1>8 DEF ReadSessionFails
  <1> QED
    BY <1>4, <1>5, <1>6, <1>7, <1>8 DEF Read

LEMMA ReaderStep ==
  ASSUME ServiceSound, ReadersAgree, NEW q \in Readers, Read(q), UNCHANGED vars
  PROVE  ReadersAgree'
  <1>1. ReaderAgrees(q) /\ ReadersTyped /\ AcknowledgedIsStored
    BY DEF ReadersAgree
  <1>2. ReaderAgrees(q)'
    <2>1. CASE ReadSessionFails(q)
      <3>1. left'[q] = << >> /\ seen'[q] = Nothing
        BY <1>1, <2>1 DEF ReadSessionFails, Dismiss, ReadersTyped
      <3> QED
        BY <3>1 DEF ReaderAgrees, Ahead
    <2> QED
      BY <1>1, <2>1, ListSessionsShows, ListObjectsShows, ListRedactionsShows,
         ReadSessionShows DEF Read
  <1>3. /\ asker' = asker /\ subject' = subject /\ DOMAIN left' = Readers
        /\ seen' \in [Readers -> View \cup {Nothing}]
        /\ \A p \in Readers \ {q} : left'[p] = left[p] /\ seen'[p] = seen[p]
    <2>1. CASE Dismiss(q)
      BY <1>1, <2>1 DEF Dismiss, ReadersTyped
    <2>2. CASE \E view \in View : Take(q, view)
      BY <1>1, <2>2, TakeGives
    <2> QED
      BY <1>1, <2>1, <2>2, OneReads
  <1>4. ReadersTyped'
    BY <1>1, <1>3 DEF ReadersTyped
  <1>5. ASSUME NEW p \in Readers \ {q} PROVE ReaderAgrees(p)'
    <2>1. ReaderAgrees(p) /\ Consistent /\ [Serving]_vars
      BY DEF ReadersAgree, ServiceSound
    <2> QED
      BY <1>1, <1>3, <2>1, RestingReader
  <1> QED
    BY <1>1, <1>2, <1>4, <1>5 DEF ReadersAgree, AcknowledgedIsStored, vars

(* Handlers and readers, one at a time.                                    *)
LEMMA ReadersNext ==
  ASSUME ServiceSound, ReadersAgree, [ViewsNext]_allVars
  PROVE  ReadersAgree'
  <1>1. CASE \E q \in Readers : Read(q) /\ UNCHANGED vars
    BY <1>1, ReaderStep
  <1>2. CASE [Serving]_vars /\ UNCHANGED readerVars
    <2>1. ASSUME NEW q \in Readers PROVE ReaderAgrees(q)'
      BY <1>2, RestingReader DEF ReadersAgree, ServiceSound, readerVars
    <2>2. AcknowledgedIsStored'
      BY <1>2, AcknowledgedServe DEF ServiceSound
    <2> QED
      BY <1>2, <2>1, <2>2 DEF ReadersAgree, ReadersTyped, readerVars
  <1> QED
    BY <1>1, <1>2 DEF ViewsNext, Serving, AllFinished, allVars, tablesAndHandlers

(* Readers take no step of a handler's.                                    *)
LEMMA ViewsServe == ViewsSpec => Spec
  <1>1. ViewsInit => Init
    BY DEF ViewsInit
  <1>2. [ViewsNext]_allVars => [Next]_vars
    BY DEF ViewsNext, Next, AllFinished, allVars, tablesAndHandlers
  <1> QED
    BY <1>1, <1>2, PTL DEF ViewsSpec, Spec

-----------------------------------------------------------------------------
(* The theorems.                                                           *)

(* At every moment what readers hold agrees with the tables, whatever is   *)
(* under way (service.go:197, 206-229, 258-280).                           *)
THEOREM ReadersAlwaysAgree ==
  ViewsSpec => [](ReadersAgree /\ Consistent /\ RowsAgree /\ TotalsNeverOverclaim)
  <1>1. ReadersAgree /\ Consistent /\ RowsAgree /\ TotalsNeverOverclaim
          /\ [ViewsNext]_allVars => ReadersAgree'
    BY ReadersNext DEF ServiceSound, ReadersAgree
  <1> QED
    BY <1>1, ReadersInit, ViewsServe, AlwaysConsistent, RowsAlwaysAgree, TotalsSafe, PTL
    DEF ViewsSpec

LEMMA SessionsDescend ==
  ASSUME Consistent, NEW s \in DOMAIN sessions
  PROVE  s \in DOMAIN objects /\ caller[s] = sessions[s].scope
  BY AuthorsKnow DEF Consistent, TablesAgree, Belongs, ObjectAgrees, Visible

(* Askers, questions, remaining calls and views keep their types.          *)
THEOREM ViewsTypeCorrect == ViewsSpec => []ViewsTypeOK
  <1>1. ASSUME ReadersAgree PROVE ViewsTypeOK
    <2> SUFFICES ASSUME NEW q \in Readers
                 PROVE  \E n \in 0 .. Len(Calls(subject[q])) :
                          left[q] = SubSeq(Calls(subject[q]), n + 1, Len(Calls(subject[q])))
      BY <1>1 DEF ViewsTypeOK, ReadersAgree, ReadersTyped
    <2>1. left[q] \in Ahead(subject[q])
      BY <1>1 DEF ReadersAgree, ReaderAgrees
    <2>2. /\ Len(Usage) = 2 /\ Len(Detail) = 3
          /\ Usage = SubSeq(Usage, 1, 2) /\ LastOfUsage = SubSeq(Usage, 2, 2)
          /\ << >> = SubSeq(Usage, 3, 2)
          /\ Detail = SubSeq(Detail, 1, 3) /\ RestOfDetail = SubSeq(Detail, 2, 3)
          /\ LastOfDetail = SubSeq(Detail, 3, 3) /\ << >> = SubSeq(Detail, 4, 3)
      BY DEF Usage, LastOfUsage, Detail, RestOfDetail, LastOfDetail
    <2>3. CASE subject[q] = Nothing
      <3>1. Calls(subject[q]) = Usage /\ Len(Calls(subject[q])) = 2
        BY <2>2, <2>3 DEF Calls, Usage
      <3>2. left[q] \in {Usage, LastOfUsage, << >>}
        BY <2>1, <2>3 DEF Ahead
      <3> DEFINE rest(k) == SubSeq(Usage, k, 2)
      <3>3. \E k \in {1, 2, 3} : left[q] = rest(k)
        BY <2>2, <3>2, Zenon
      <3> HIDE DEF rest
      <3>4. PICK k \in 1 .. 3 : left[q] = rest(k)
        BY <3>3
      <3>5. k - 1 \in 0 .. 2 /\ (k - 1) + 1 = k
        OBVIOUS
      <3>6. /\ k - 1 \in 0 .. Len(Calls(subject[q]))
            /\ left[q] = SubSeq(Calls(subject[q]), (k - 1) + 1, Len(Calls(subject[q])))
        BY <3>1, <3>4, <3>5 DEF rest
      <3> QED
        BY <3>6
    <2>4. CASE subject[q] # Nothing
      <3>1. Calls(subject[q]) = Detail /\ Len(Calls(subject[q])) = 3
        BY <2>2, <2>4 DEF Calls, Detail
      <3>2. left[q] \in {Detail, RestOfDetail, LastOfDetail, << >>}
        BY <2>1, <2>4 DEF Ahead
      <3> DEFINE rest(k) == SubSeq(Detail, k, 3)
      <3>3. \E k \in {1, 2, 3, 4} : left[q] = rest(k)
        BY <2>2, <3>2, Zenon
      <3> HIDE DEF rest
      <3>4. PICK k \in 1 .. 4 : left[q] = rest(k)
        BY <3>3
      <3>5. k - 1 \in 0 .. 3 /\ (k - 1) + 1 = k
        OBVIOUS
      <3>6. /\ k - 1 \in 0 .. Len(Calls(subject[q]))
            /\ left[q] = SubSeq(Calls(subject[q]), (k - 1) + 1, Len(Calls(subject[q])))
        BY <3>1, <3>4, <3>5 DEF rest
      <3> QED
        BY <3>6
    <2> QED
      BY <2>3, <2>4
  <1> QED
    BY <1>1, ReadersAlwaysAgree, PTL

(* No list or detail ever shows a row of another tenant or workspace, nor  *)
(* an object of another session than the one asked for (store.go:64, 87,   *)
(* 125, 142; postgres.go:138, 184, 216).                                   *)
THEOREM ViewsAlwaysInScope == ViewsSpec => []ViewsStayInScope
  <1>1. ASSUME ReadersAgree, Consistent PROVE ViewsStayInScope
    <2> SUFFICES ASSUME NEW q \in Readers, seen[q] # Nothing
                 PROVE  /\ \A o \in seen[q].sessions \cup seen[q].objects
                              \cup {row.object : row \in seen[q].redactions} :
                             caller[o] = asker[q]
                        /\ \A o \in seen[q].objects : InSession(held[o], subject[q])
      BY DEF ViewsStayInScope
    <2>1. Fits(q)
      BY <1>1 DEF ReadersAgree, ReaderAgrees
    <2>2. \A s \in seen[q].sessions : caller[s] = asker[q]
      BY <1>1, <2>1, SessionsDescend DEF Fits, Visible
    <2>3. \A o : Visible(objects, asker[q], o) => caller[o] = asker[q]
      BY <1>1, AuthorsKnow DEF Visible
    <2>4. \A o \in seen[q].objects : InSession(held[o], subject[q])
      BY <1>1, <2>1, AuthorsKnow DEF Fits, Visible, InSession
    <2> QED
      BY <2>1, <2>2, <2>3, <2>4 DEF Fits
  <1> QED
    BY <1>1, ReadersAlwaysAgree, PTL

(* The usage shows no more sessions than objects, the totals of a detail   *)
(* sum over objects that are listed with them, and the redactions of every *)
(* listed object are listed, unless a list came back short                 *)
(* (service.go:206-229, 258-280).                                          *)
THEOREM ViewsAlwaysCovered == ViewsSpec => []ViewsAreCovered
  <1>1. ASSUME ReadersAgree PROVE ViewsAreCovered
    <2> SUFFICES ASSUME NEW q \in Readers, AnsweredWhole(q)
                 PROVE  IF subject[q] = Nothing
                        THEN Cardinality(seen[q].sessions) <= Cardinality(seen[q].objects)
                        ELSE /\ seen[q].totals \subseteq seen[q].objects
                             /\ \A o \in seen[q].objects :
                                  RedactionRows(held[o]) \subseteq seen[q].redactions
      BY DEF ViewsAreCovered
    <2>1. /\ left[q] = << >> /\ seen[q].whole /\ seen[q] # Nothing
          /\ IF subject[q] = Nothing THEN UsageCovered(q) ELSE DetailCovered(q)
      BY <1>1 DEF AnsweredWhole, Answered, ReadersAgree, ReaderAgrees
    <2>2. CASE subject[q] = Nothing
      <3>1. seen[q].sessions \subseteq seen[q].objects
        BY <2>1, <2>2 DEF UsageCovered
      <3>2. seen[q].objects \subseteq Requests
        BY <1>1, <2>1 DEF ReadersAgree, ReadersTyped, View
      <3>3. IsFiniteSet(seen[q].objects)
        BY <3>2, FS_Subset, RequestsFinite
      <3>4. Cardinality(seen[q].sessions) <= Cardinality(seen[q].objects)
        BY <3>1, <3>3, FS_Subset
      <3> QED
        BY <2>2, <3>4
    <2>3. CASE subject[q] # Nothing
      BY <2>1, <2>3 DEF DetailCovered
    <2> QED
      BY <2>2, <2>3
  <1> QED
    BY <1>1, ReadersAlwaysAgree, PTL

(* Whoever asks after an ingest was acknowledged is shown its object,      *)
(* unless a list came back short (service.go:197, 206-229, 258-280).       *)
THEOREM AcknowledgedAlwaysListed == ViewsSpec => []AcknowledgedIsListed
  <1>1. ASSUME ReadersAgree PROVE AcknowledgedIsListed
    BY <1>1 DEF AcknowledgedIsListed, AnsweredWhole, Answered, ReadersAgree,
       ReaderAgrees, UsageCovered, DetailCovered, Expected
  <1> QED
    BY <1>1, ReadersAlwaysAgree, PTL
=============================================================================
