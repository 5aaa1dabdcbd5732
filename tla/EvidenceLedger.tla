---------------------------- MODULE EvidenceLedger ----------------------------
(***************************************************************************)
(* What the service promises to its clients, without stores, handlers or   *)
(* steps: a ledger of evidence.  A piece of evidence appears whole, in one *)
(* step, in its caller's tenant and workspace, and then neither changes    *)
(* nor disappears; whoever is served is served evidence of the ledger that *)
(* belongs to its scope.  A request may fail at any time, also when its    *)
(* evidence has been published.                                            *)
(***************************************************************************)
CONSTANTS Requests, Scopes, Texts, Kinds, Findings, Nothing

VARIABLES
  ledger,     \* the evidence published so far
  caller,     \* the scope of each request
  status,     \* "pending", or what the client was told
  content     \* the evidence the client was given, by id and text

vars == <<ledger, caller, status, content>>

Evidence == [id : Requests, session : Requests, scope : Scopes,
             text : Texts, kinds : SUBSET Kinds]

(* Evidence starts a session of its own or joins one of the same scope.    *)
Fits(e) ==
  IF e.session = e.id
  THEN \A f \in ledger : f.session # e.session
  ELSE \E f \in ledger : f.session = e.session /\ f.scope = e.scope

Tell(r, told, e) ==
  /\ status' = [status EXCEPT ![r] = told]
  /\ content' = [content EXCEPT ![r] = [id |-> e.id, text |-> e.text]]

Fail(r) ==
  /\ status' = [status EXCEPT ![r] = "failed"]
  /\ UNCHANGED content

Publish(r) ==
  \E e \in Evidence :
    /\ status[r] = "pending"
    /\ e.id = r /\ e.scope = caller[r] /\ e.kinds = Findings[e.text]
    /\ \A f \in ledger : f.id # r
    /\ Fits(e)
    /\ ledger' = ledger \cup {e}
    /\ Tell(r, "ingested", e) \/ Fail(r)
    /\ UNCHANGED caller

Serve(r) ==
  \E e \in ledger :
    /\ status[r] = "pending"
    /\ e.scope = caller[r]
    /\ Tell(r, "retrieved", e)
    /\ UNCHANGED <<ledger, caller>>

Reject(r) ==
  /\ status[r] = "pending"
  /\ Fail(r)
  /\ UNCHANGED <<ledger, caller>>

Init ==
  /\ ledger = {}
  /\ caller \in [Requests -> Scopes]
  /\ status = [r \in Requests |-> "pending"]
  /\ content = [r \in Requests |-> Nothing]

Next == \E r \in Requests : Publish(r) \/ Serve(r) \/ Reject(r)

Spec == Init /\ [][Next]_vars

=============================================================================
