-------------------------------- MODULE Access --------------------------------
(***************************************************************************)
(* Who may do what: the resolver of internal/auth, the permission checks   *)
(* of internal/api/router.go, the API key operations of the service and of *)
(* both stores, and the part of an ingest that depends on who calls.       *)
(*                                                                         *)
(* A request is authenticated by an API key, which takes two store calls   *)
(* (look up, touch), by a signed token (JWT), or in development by         *)
(* nothing; it is then refused or served.  Keys are created and revoked    *)
(* while other requests that use them are under way.                       *)
(*                                                                         *)
(* Abstractions.  A key's id serves as its secret and its hash.  A token   *)
(* that is malformed or has expired is refused like one with a wrong       *)
(* signature.  Serving is one step: the scope a handler works with is a    *)
(* copy and no longer changes; module ControlPlane has the steps.          *)
(***************************************************************************)
EXTENDS Naturals, FiniteSets

CONSTANTS
  Requests,
  KeyIds,        \* the random ids; each is minted once
  Tenants,
  Names,         \* workspaces an application chose
  Secrets,       \* what a token may be signed with
  Configs,       \* the environments the process may be started in
  Tokens,        \* the tokens clients present
  Grants,        \* the scopes asked for with a new key
  Faults,        \* may the database or the process fail?
  Empty,         \* an empty string in a claim or in the environment
  Nothing        \* no row, nobody

ASSUME EmptyIsNoName ==
  Empty \notin Tenants /\ Empty \notin Names /\ Empty \notin Secrets

Permissions == {"ingest", "read", "retrieve", "admin", "intercept"}

(* "tenant:" + tenant                                                      *)
TenantNamespace(tenant) == <<"tenant:", tenant>>

Workspaces == Names \cup {TenantNamespace(t) : t \in Tenants}

Scope == [tenant : Tenants, workspace : Workspaces,
          granted : SUBSET Permissions, trusted : BOOLEAN]

Key == [tenant : Tenants, workspace : Workspaces, scopes : SUBSET Permissions,
        status : {"active", "revoked", "lost"}, used : BOOLEAN]

Token == [kind : {"jwt"}, signedWith : Secrets \cup {Empty},
          tenant : Tenants \cup {Empty}, workspace : Names \cup {Empty},
          user : BOOLEAN]

NoToken == [kind |-> "none"]

KeyOf(k) == [kind |-> "key", key |-> k]

Config == [devAuth : BOOLEAN, devTenant : Tenants \cup {Empty},
           devWorkspace : Names \cup {Empty}, devTrusted : BOOLEAN,
           jwtSecret : Secrets \cup {Empty}, database : BOOLEAN]

Receipt == [by : Requests, delivered : BOOLEAN]

ASSUME InputsTyped ==
  /\ Tokens \subseteq Token /\ Configs \subseteq Config /\ Faults \in BOOLEAN
  /\ Grants \subseteq SUBSET Permissions
ASSUME NothingIsNoKey == Nothing \notin Key /\ Nothing \notin Scope

VARIABLES
  config,      \* the environment, read once at start-up
  keys,        \* the API key table; "lost" marks a row gone with its process
  receipts,    \* the savings of every ingest
  pc,          \* where a request is, or how it was answered
  via,         \* the credentials of a request that was authenticated
  who          \* the scope they were resolved to

vars == <<config, keys, receipts, pc, via, who>>

Answers == {"ingested", "read", "retrieved", "created", "revoked", "refused"}

TypeOK ==
  /\ config \in Configs
  /\ keys \in [KeyIds -> Key \cup {Nothing}]
  /\ receipts \subseteq Receipt
  /\ pc \in [Requests -> {"idle", "touch", "serve"} \cup Answers]
  /\ via \in [Requests -> {NoToken} \cup Tokens \cup {KeyOf(k) : k \in KeyIds}]
  /\ who \in [Requests -> Scope \cup {Nothing}]

-----------------------------------------------------------------------------
(* Start-up.                                                               *)

(* Mutant: production starts without a database.                           *)
LoadsWithoutDatabase(c) ==
  IF c.devAuth
  THEN c.devTenant # Empty /\ c.devWorkspace # Empty
  ELSE c.jwtSecret # Empty

(* Development needs a scope, production a database and a secret.          *)
Loads(c) ==
  IF c.devAuth
  THEN c.devTenant # Empty /\ c.devWorkspace # Empty
  ELSE c.database /\ c.jwtSecret # Empty

DevScope ==
  [tenant |-> config.devTenant, workspace |-> config.devWorkspace,
   granted |-> {"admin"}, trusted |-> config.devTrusted]

MayFail == Faults /\ config.database

-----------------------------------------------------------------------------
(* Authentication.                                                         *)

(* Mutant: any grant will do.                                              *)
HasSome(granted, want) == granted # {}

Has(granted, want) == want \in granted \/ "admin" \in granted

(* Mutant: the key opens the whole tenant.                                 *)
KeyScopeTenantWide(row) ==
  [tenant |-> row.tenant, workspace |-> TenantNamespace(row.tenant),
   granted |-> row.scopes, trusted |-> Has(row.scopes, "intercept")]

KeyScope(row) ==
  [tenant |-> row.tenant, workspace |-> row.workspace,
   granted |-> row.scopes, trusted |-> Has(row.scopes, "intercept")]

(* Mutant: the token is decoded and its signature is not compared.         *)
AcceptableUnsigned(token) == token.tenant # Empty /\ token.user

Acceptable(token) ==
  token.signedWith = config.jwtSecret /\ token.tenant # Empty /\ token.user

TokenScope(token) ==
  [tenant |-> token.tenant,
   workspace |-> IF token.workspace = Empty
                 THEN TenantNamespace(token.tenant)
                 ELSE token.workspace,
   granted |-> {"admin"}, trusted |-> FALSE]

Goto(r, label) == pc' = [pc EXCEPT ![r] = label]

Accept(r, credentials, scope, label) ==
  /\ pc[r] = "idle"
  /\ via' = [via EXCEPT ![r] = credentials]
  /\ who' = [who EXCEPT ![r] = scope]
  /\ Goto(r, label)
  /\ UNCHANGED <<config, keys, receipts>>

(* A row of the table, whoever asks; a lost row is in no table.            *)
Stored(k) == keys[k] # Nothing /\ keys[k].status # "lost"

(* GetAPIKeyByHash.                                                        *)
ResolveKey(r) ==
  \E k \in KeyIds :
    /\ Stored(k) /\ keys[k].status = "active"
    /\ Accept(r, KeyOf(k), KeyScope(keys[k]), "touch")

(* Mutant: the touch writes back the row that the lookup read.             *)
TouchWritesRow(r) ==
  /\ pc[r] = "touch"
  /\ keys' = [keys EXCEPT ![via[r].key].used = TRUE,
                          ![via[r].key].status = "active"]
  /\ Goto(r, "serve")
  /\ UNCHANGED <<config, receipts, via, who>>

(* TouchAPIKey; its error is ignored.                                      *)
TouchKey(r) ==
  /\ pc[r] = "touch"
  /\ \/ keys' = [keys EXCEPT ![via[r].key].used = TRUE]
     \/ MayFail /\ UNCHANGED keys
  /\ Goto(r, "serve")
  /\ UNCHANGED <<config, receipts, via, who>>

ResolveToken(r) ==
  \E token \in Tokens :
    /\ config.jwtSecret # Empty
    /\ Acceptable(token)
    /\ Accept(r, token, TokenScope(token), "serve")

(* In development the header is not looked at, unless tokens are enabled.  *)
ResolveDev(r) ==
  \E token \in Tokens \cup {NoToken} :
    /\ config.devAuth
    /\ token = NoToken \/ config.jwtSecret = Empty
    /\ Accept(r, token, DevScope, "serve")

-----------------------------------------------------------------------------
(* The router and the service.                                             *)

Permits(r, want) == pc[r] = "serve" /\ Has(who[r].granted, want)

(* Bad credentials, a missing permission, a bad request, a failed call, or *)
(* the replica dies.                                                       *)
Refuse(r) ==
  /\ pc[r] \in {"idle", "serve"} \/ (MayFail /\ pc[r] = "touch")
  /\ Goto(r, "refused")
  /\ UNCHANGED <<config, keys, receipts, via, who>>

(* Mutant: the client is believed.                                         *)
DeliveredAsClaimed(scope, claimed) == claimed

(* deliveryVerified                                                        *)
Delivered(scope, claimed) == scope.trusted /\ claimed

(* POST /objects; the client claims delivered savings or does not.         *)
Ingest(r) ==
  \E claimed \in BOOLEAN :
    /\ Permits(r, "ingest")
    /\ receipts' = receipts \cup
         {[by |-> r, delivered |-> Delivered(who[r], claimed)]}
    /\ Goto(r, "ingested")
    /\ UNCHANGED <<config, keys, via, who>>

(* Sessions, objects, redactions, usage, search; POST /retrieve.           *)
Read(r) ==
  /\ \/ Permits(r, "read") /\ Goto(r, "read")
     \/ Permits(r, "retrieve") /\ Goto(r, "retrieved")
  /\ UNCHANGED <<config, keys, receipts, via, who>>

NewKey(scope, scopes) ==
  [tenant |-> scope.tenant, workspace |-> scope.workspace,
   scopes |-> IF scopes = {} THEN {"ingest", "read"} ELSE scopes,
   status |-> "active", used |-> FALSE]

(* Mutant: the scopes are not checked against the allowed ones.            *)
CreateKeyUnchecked(r) ==
  \E k \in KeyIds, scopes \in Grants \cup {{"write"}} :
    /\ Permits(r, "admin")
    /\ keys[k] = Nothing
    /\ keys' = [keys EXCEPT ![k] = NewKey(who[r], scopes)]
    /\ Goto(r, "created")
    /\ UNCHANGED <<config, receipts, via, who>>

(* POST /api-keys.  The row may be there although the call failed.         *)
CreateKey(r) ==
  \E k \in KeyIds, scopes \in Grants :
    /\ Permits(r, "admin")
    /\ keys[k] = Nothing
    /\ keys' = [keys EXCEPT ![k] = NewKey(who[r], scopes)]
    /\ Goto(r, "created") \/ (MayFail /\ Goto(r, "refused"))
    /\ UNCHANGED <<config, receipts, via, who>>

(* Mutant: revoked by id alone.                                            *)
InScopeOfAnyone(scope, row) == TRUE

InScope(scope, row) ==
  row.tenant = scope.tenant /\ row.workspace = scope.workspace

(* DELETE /api-keys/<id>                                                   *)
RevokeKey(r) ==
  \E k \in KeyIds :
    /\ Permits(r, "admin")
    /\ Stored(k) /\ InScope(who[r], keys[k])
    /\ keys' = [keys EXCEPT ![k].status = "revoked"]
    /\ Goto(r, "revoked") \/ (MayFail /\ Goto(r, "refused"))
    /\ UNCHANGED <<config, receipts, via, who>>

-----------------------------------------------------------------------------
(* The process that holds the Memory store is restarted.                   *)
Restart ==
  /\ Faults /\ ~config.database
  /\ keys' = [k \in KeyIds |->
                IF keys[k] = Nothing THEN Nothing
                ELSE [keys[k] EXCEPT !.status = "lost"]]
  /\ pc' = [r \in Requests |->
              IF pc[r] \in {"touch", "serve"} THEN "refused" ELSE pc[r]]
  /\ UNCHANGED <<config, receipts, via, who>>

AllAnswered == (\A r \in Requests : pc[r] \in Answers) /\ UNCHANGED vars

Init ==
  /\ config \in {c \in Configs : Loads(c)}
  /\ keys = [k \in KeyIds |-> Nothing]
  /\ receipts = {}
  /\ pc = [r \in Requests |-> "idle"]
  /\ via = [r \in Requests |-> NoToken]
  /\ who = [r \in Requests |-> Nothing]

Resolve(r) == ResolveKey(r) \/ TouchKey(r) \/ ResolveToken(r) \/ ResolveDev(r)

Serve(r) == Refuse(r) \/ Ingest(r) \/ Read(r) \/ CreateKey(r) \/ RevokeKey(r)

Next ==
  \/ \E r \in Requests : Resolve(r) \/ Serve(r)
  \/ Restart
  \/ AllAnswered

Spec == Init /\ [][Next]_vars

=============================================================================
