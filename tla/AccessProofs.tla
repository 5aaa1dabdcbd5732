----------------------------- MODULE AccessProofs -----------------------------
(***************************************************************************)
(* Access keeps AccessInvariant, and with it the properties of             *)
(* AccessProperties that speak of one state, for every set of requests,    *)
(* keys, tenants, tokens and environments.                                 *)
(***************************************************************************)
EXTENDS AccessProperties, TLAPS

USE DEF Answers

(* A development scope exists wherever it is used.                         *)
LEMMA DevScopeTyped ==
  ASSUME config \in Configs, Loads(config), config.devAuth
  PROVE  DevScope \in Scope
  <1>1. config \in Config
    BY InputsTyped
  <1>2. config.devTenant \in Tenants /\ config.devWorkspace \in Workspaces
    BY <1>1 DEF Loads, Config, Workspaces
  <1> QED
    BY <1>1, <1>2 DEF DevScope, Scope, Config, Permissions

(* What a key row or an acceptable token resolves to is a scope.           *)
LEMMA KeyScopeTyped ==
  ASSUME NEW row \in Key
  PROVE  KeyScope(row) \in Scope
  BY DEF KeyScope, Key, Scope, Has, Permissions

LEMMA TokenScopeTyped ==
  ASSUME NEW token \in Tokens, Acceptable(token)
  PROVE  TokenScope(token) \in Scope
  BY InputsTyped DEF Acceptable, TokenScope, Token, Scope, Permissions, Workspaces

(* A new row is a row of the scope it was made in.                         *)
LEMMA NewKeyTyped ==
  ASSUME NEW scope \in Scope, NEW scopes \in Grants
  PROVE  /\ NewKey(scope, scopes) \in Key
         /\ NewKey(scope, scopes) # Nothing
         /\ SameScope(scope, NewKey(scope, scopes))
  <1>1. (IF scopes = {} THEN {"ingest", "read"} ELSE scopes) \in SUBSET Permissions
    BY InputsTyped DEF Permissions
  <1>2. scope.tenant \in Tenants /\ scope.workspace \in Workspaces
    BY DEF Scope
  <1>3. NewKey(scope, scopes) \in Key
    BY <1>1, <1>2 DEF NewKey, Key
  <1>4. SameScope(scope, NewKey(scope, scopes))
    BY DEF NewKey, SameScope
  <1> QED
    BY <1>3, <1>4, NothingIsNoKey

(* Credentials are of one of three kinds.                                  *)
LEMMA Kinds ==
  /\ NoToken.kind = "none"
  /\ \A token \in Tokens : token.kind = "jwt"
  /\ \A k \in KeyIds : KeyOf(k).kind = "key" /\ KeyOf(k).key = k
  BY InputsTyped DEF NoToken, Token, KeyOf

LEMMA ByKeyKnown ==
  ASSUME TypeOK, NEW r \in Requests, via[r].kind = "key"
  PROVE  via[r].key \in KeyIds
  BY Kinds DEF TypeOK

-----------------------------------------------------------------------------
(* What no step changes.                                                   *)

(* A key keeps its tenant, its workspace and its scopes.                   *)
KeysKeep ==
  \A k \in KeyIds : keys[k] # Nothing =>
    /\ keys'[k] # Nothing
    /\ KeyScope(keys'[k]) = KeyScope(keys[k])
    /\ keys'[k].tenant = keys[k].tenant /\ keys'[k].workspace = keys[k].workspace
    /\ keys'[k].scopes = keys[k].scopes

(* Whoever has been authenticated stays who he is.                         *)
IdentityKept ==
  \A r \in Requests : who[r] # Nothing => who'[r] = who[r] /\ via'[r] = via[r]

(* Types are kept and rows keep what identity depends on.                  *)
LEMMA RowsStep ==
  ASSUME TypeOK, RequestsAgree, Next
  PROVE  /\ keys' \in [KeyIds -> Key \cup {Nothing}] /\ KeysKeep
         /\ config' = config
  <1> USE NothingIsNoKey
  <1>1. CASE keys' = keys /\ config' = config
    BY <1>1 DEF TypeOK, KeysKeep
  <1>2. ASSUME NEW k \in KeyIds, keys[k] # Nothing, config' = config,
               \/ keys' = [keys EXCEPT ![k].used = TRUE]
               \/ keys' = [keys EXCEPT ![k].status = "revoked"]
        PROVE  keys' \in [KeyIds -> Key \cup {Nothing}] /\ KeysKeep
    <2>1. keys[k] \in Key
      BY <1>2 DEF TypeOK
    <2>2. /\ [keys[k] EXCEPT !.used = TRUE] \in Key
          /\ [keys[k] EXCEPT !.status = "revoked"] \in Key
      BY <2>1 DEF Key
    <2>3. keys' \in [KeyIds -> Key \cup {Nothing}]
      BY <1>2, <2>2 DEF TypeOK
    <2>4. keys'[k] \in Key /\ \A j \in KeyIds \ {k} : keys'[j] = keys[j]
      BY <1>2, <2>2 DEF TypeOK
    <2>5. /\ keys'[k].tenant = keys[k].tenant
          /\ keys'[k].workspace = keys[k].workspace
          /\ keys'[k].scopes = keys[k].scopes
      BY <1>2, <2>1 DEF TypeOK, Key
    <2> QED
      BY <2>3, <2>4, <2>5 DEF KeysKeep, KeyScope
  <1>3. ASSUME NEW r \in Requests, CreateKey(r)
        PROVE  keys' \in [KeyIds -> Key \cup {Nothing}] /\ KeysKeep
    <2>1. PICK k \in KeyIds, scopes \in Grants :
            /\ pc[r] = "serve"
            /\ keys[k] = Nothing
            /\ keys' = [keys EXCEPT ![k] = NewKey(who[r], scopes)]
      BY <1>3 DEF CreateKey, Permits
    <2>2. who[r] \in Scope
      BY <2>1 DEF RequestsAgree, RequestAgrees, TypeOK
    <2> QED
      BY <2>1, <2>2, NewKeyTyped DEF TypeOK, KeysKeep
  <1>4. CASE Restart
    <2>1. ASSUME NEW k \in KeyIds, keys[k] # Nothing
          PROVE  /\ keys'[k] = [keys[k] EXCEPT !.status = "lost"]
                 /\ keys[k] \in Key /\ keys'[k] \in Key
      BY <1>4, <2>1 DEF Restart, TypeOK, Key
    <2>2. \A k \in KeyIds : keys[k] = Nothing => keys'[k] = Nothing
      BY <1>4 DEF Restart
    <2>3. keys' \in [KeyIds -> Key \cup {Nothing}]
      BY <1>4, <2>1, <2>2 DEF Restart
    <2>4. ASSUME NEW k \in KeyIds, keys[k] # Nothing
          PROVE  /\ keys'[k].tenant = keys[k].tenant
                 /\ keys'[k].workspace = keys[k].workspace
                 /\ keys'[k].scopes = keys[k].scopes
      BY <2>1, <2>4 DEF Key
    <2> QED
      BY <1>4, <2>1, <2>3, <2>4 DEF KeysKeep, KeyScope, Restart
  <1>5. ASSUME NEW r \in Requests, TouchKey(r)
        PROVE  keys' \in [KeyIds -> Key \cup {Nothing}] /\ KeysKeep
    <2>1. via[r].key \in KeyIds /\ keys[via[r].key] # Nothing
      BY <1>5, ByKeyKnown DEF TouchKey, RequestsAgree, RequestAgrees
    <2> QED
      BY <1>1, <1>2, <1>5, <2>1 DEF TouchKey
  <1>6. ASSUME NEW r \in Requests, RevokeKey(r)
        PROVE  keys' \in [KeyIds -> Key \cup {Nothing}] /\ KeysKeep
    BY <1>2, <1>6 DEF RevokeKey, Stored
  <1>7. ASSUME NEW r \in Requests,
               \/ ResolveKey(r) \/ ResolveToken(r) \/ ResolveDev(r)
               \/ Refuse(r) \/ Ingest(r) \/ Read(r)
        PROVE  keys' = keys /\ config' = config
    BY <1>7 DEF ResolveKey, ResolveToken, ResolveDev, Accept, Refuse, Ingest, Read
  <1>8. config' = config
    BY <1>7 DEF Next, Resolve, Serve, TouchKey, CreateKey, RevokeKey, Restart,
                AllAnswered, vars
  <1>9. CASE AllAnswered
    BY <1>1, <1>9 DEF AllAnswered, vars
  <1> QED
    BY <1>1, <1>3, <1>4, <1>5, <1>6, <1>7, <1>8, <1>9 DEF Next, Resolve, Serve

(* Either nobody's identity changes, or one idle request is accepted.      *)
Accepted(r) == ResolveKey(r) \/ ResolveToken(r) \/ ResolveDev(r)

LEMMA AcceptedOrSame ==
  ASSUME Next
  PROVE  \/ \E r \in Requests : Accepted(r)
         \/ UNCHANGED <<via, who>>
  BY DEF Next, Resolve, Accepted, Serve, TouchKey, Refuse, Ingest, Read,
         CreateKey, RevokeKey, Restart, AllAnswered, vars

(* Whoever is accepted is who the credentials say.                         *)
LEMMA AcceptedSoundly ==
  ASSUME TypeOK, Loads(config), NEW r \in Requests, Accepted(r)
  PROVE  \E c \in {NoToken} \cup Tokens \cup {KeyOf(k) : k \in KeyIds},
            scope \in Scope, label \in {"touch", "serve"} :
           /\ Accept(r, c, scope, label)
           /\ label = "touch" => c.kind = "key"
           /\ c.kind = "key" => keys[c.key] # Nothing
           /\ \/ c.kind = "key" /\ scope = KeyScope(keys[c.key])
              \/ /\ c.kind = "jwt" /\ c.signedWith # Empty
                 /\ c.signedWith = config.jwtSecret
                 /\ scope.tenant = c.tenant
                 /\ ~scope.trusted
              \/ /\ c.kind # "key"
                 /\ c.kind = "none" \/ config.jwtSecret = Empty
                 /\ config.devAuth /\ scope = DevScope
  <1>1. CASE ResolveKey(r)
    <2>1. PICK k \in KeyIds :
            Stored(k) /\ Accept(r, KeyOf(k), KeyScope(keys[k]), "touch")
      BY <1>1 DEF ResolveKey
    <2>2. keys[k] # Nothing /\ KeyScope(keys[k]) \in Scope
      BY <2>1, KeyScopeTyped DEF Stored, TypeOK
    <2> QED
      BY <2>1, <2>2, Kinds
  <1>2. CASE ResolveToken(r)
    <2>1. PICK token \in Tokens :
            /\ config.jwtSecret # Empty
            /\ Acceptable(token)
            /\ Accept(r, token, TokenScope(token), "serve")
      BY <1>2 DEF ResolveToken
    <2>2. /\ token.signedWith = config.jwtSecret
          /\ TokenScope(token).tenant = token.tenant
          /\ ~TokenScope(token).trusted
      BY <2>1 DEF Acceptable, TokenScope
    <2> QED
      BY <2>1, <2>2, TokenScopeTyped, Kinds
  <1>3. CASE ResolveDev(r)
    <2>1. PICK token \in Tokens \cup {NoToken} :
            /\ config.devAuth
            /\ token = NoToken \/ config.jwtSecret = Empty
            /\ Accept(r, token, DevScope, "serve")
      BY <1>3 DEF ResolveDev
    <2>2. DevScope \in Scope
      BY <2>1, DevScopeTyped DEF TypeOK
    <2> QED
      BY <2>1, <2>2, Kinds
  <1> QED
    BY <1>1, <1>2, <1>3 DEF Accepted

LEMMA IdentityStep ==
  ASSUME TypeOK, Loads(config), RequestsAgree, Next
  PROVE  /\ via' \in [Requests -> {NoToken} \cup Tokens \cup {KeyOf(k) : k \in KeyIds}]
         /\ who' \in [Requests -> Scope \cup {Nothing}]
         /\ IdentityKept
  <1>1. CASE UNCHANGED <<via, who>>
    BY <1>1 DEF TypeOK, IdentityKept
  <1>2. ASSUME NEW r \in Requests, Accepted(r)
        PROVE  /\ via' \in [Requests -> {NoToken} \cup Tokens \cup {KeyOf(k) : k \in KeyIds}]
               /\ who' \in [Requests -> Scope \cup {Nothing}]
               /\ IdentityKept
    <2>1. PICK c \in {NoToken} \cup Tokens \cup {KeyOf(k) : k \in KeyIds},
               scope \in Scope, label \in {"touch", "serve"} :
            Accept(r, c, scope, label)
      BY <1>2, AcceptedSoundly
    <2>2. /\ pc[r] = "idle"
          /\ via' = [via EXCEPT ![r] = c]
          /\ who' = [who EXCEPT ![r] = scope]
      BY <2>1 DEF Accept
    <2>3. who[r] = Nothing
      BY <2>2 DEF RequestsAgree, RequestAgrees
    <2> QED
      BY <2>2, <2>3 DEF TypeOK, IdentityKept
  <1> QED
    BY <1>1, <1>2, AcceptedOrSame

(* Every step keeps the credentials sound.                                 *)
LEMMA SoundStep ==
  ASSUME TypeOK, Loads(config), RequestsAgree, SoundIdentity, Next
  PROVE  SoundIdentity'
  <1>0. KeysKeep /\ config' = config /\ IdentityKept
    BY RowsStep, IdentityStep
  <1>1. ASSUME NEW r \in Requests, who[r] # Nothing
        PROVE  /\ who'[r] = who[r] /\ via'[r] = via[r] /\ DevScope' = DevScope
               /\ via[r].kind = "key" =>
                    KeyScope(keys'[via[r].key]) = KeyScope(keys[via[r].key])
    <2>1. via[r].kind = "key" => via[r].key \in KeyIds /\ keys[via[r].key] # Nothing
      BY ByKeyKnown DEF RequestsAgree, RequestAgrees
    <2> QED
      BY <1>0, <1>1, <2>1 DEF KeysKeep, IdentityKept, DevScope
  <1>2. ASSUME NEW r \in Requests, who[r] # Nothing
        PROVE  \/ via'[r].kind = "key" /\ who'[r] = KeyScope(keys'[via'[r].key])
               \/ /\ via'[r].kind = "jwt" /\ via'[r].signedWith # Empty
                  /\ via'[r].signedWith = config'.jwtSecret
                  /\ who'[r].tenant = via'[r].tenant
                  /\ ~who'[r].trusted
               \/ /\ via'[r].kind # "key"
                  /\ via'[r].kind = "none" \/ config'.jwtSecret = Empty
                  /\ config'.devAuth /\ who'[r] = DevScope'
    BY <1>0, <1>1, <1>2 DEF SoundIdentity
  <1>3. CASE UNCHANGED <<via, who>>
    BY <1>2, <1>3 DEF SoundIdentity
  <1>4. ASSUME NEW q \in Requests, Accepted(q)
        PROVE  SoundIdentity'
    <2>1. PICK c \in {NoToken} \cup Tokens \cup {KeyOf(k) : k \in KeyIds},
               scope \in Scope, label \in {"touch", "serve"} :
            /\ Accept(q, c, scope, label)
            /\ \/ c.kind = "key" /\ scope = KeyScope(keys[c.key])
               \/ /\ c.kind = "jwt" /\ c.signedWith # Empty
                  /\ c.signedWith = config.jwtSecret
                  /\ scope.tenant = c.tenant
                  /\ ~scope.trusted
               \/ /\ c.kind # "key"
                  /\ c.kind = "none" \/ config.jwtSecret = Empty
                  /\ config.devAuth /\ scope = DevScope
      BY <1>4, AcceptedSoundly
    <2>2. /\ via' = [via EXCEPT ![q] = c] /\ who' = [who EXCEPT ![q] = scope]
          /\ keys' = keys /\ config' = config
      BY <2>1 DEF Accept
    <2>3. who'[q] = scope /\ via'[q] = c /\ DevScope' = DevScope
      BY <2>2 DEF TypeOK, DevScope
    <2>4. \A r \in Requests \ {q} : who'[r] = who[r]
      BY <2>2 DEF TypeOK
    <2> QED
      BY <1>2, <2>1, <2>2, <2>3, <2>4 DEF SoundIdentity
  <1> QED
    BY <1>3, <1>4, AcceptedOrSame

(* Every step keeps what is known of a request at its place.               *)
LEMMA PlacesStep ==
  ASSUME TypeOK, Loads(config), RequestsAgree, Next
  PROVE  /\ pc' \in [Requests -> {"idle", "touch", "serve"} \cup Answers]
         /\ RequestsAgree'
  <1>0. KeysKeep /\ IdentityKept
    BY RowsStep, IdentityStep
  <1>1. ASSUME UNCHANGED <<via, who>>, NEW r \in Requests
        PROVE  via'[r].kind = "key" => keys'[via'[r].key] # Nothing
    BY <1>0, <1>1, ByKeyKnown DEF RequestsAgree, RequestAgrees, KeysKeep
  <1>2. ASSUME NEW q \in Requests, Accepted(q)
        PROVE  /\ pc' \in [Requests -> {"idle", "touch", "serve"} \cup Answers]
               /\ RequestsAgree'
    <2>1. PICK c \in {NoToken} \cup Tokens \cup {KeyOf(k) : k \in KeyIds},
               scope \in Scope, label \in {"touch", "serve"} :
            /\ Accept(q, c, scope, label)
            /\ label = "touch" => c.kind = "key"
            /\ c.kind = "key" => keys[c.key] # Nothing
      BY <1>2, AcceptedSoundly
    <2>2. /\ via' = [via EXCEPT ![q] = c] /\ who' = [who EXCEPT ![q] = scope]
          /\ pc' = [pc EXCEPT ![q] = label] /\ keys' = keys
      BY <2>1 DEF Accept, Goto
    <2>3. RequestAgrees(q)'
      BY <2>1, <2>2, NothingIsNoKey DEF TypeOK, RequestAgrees, Needs
    <2>4. \A r \in Requests \ {q} : RequestAgrees(r)'
      BY <2>2 DEF TypeOK, RequestsAgree, RequestAgrees
    <2> QED
      BY <2>2, <2>3, <2>4 DEF TypeOK, RequestsAgree
  <1>3. ASSUME NEW q \in Requests, NEW label \in {"serve"} \cup Answers,
               UNCHANGED <<via, who>>, pc' = [pc EXCEPT ![q] = label],
               label # "refused" => who[q] # Nothing
        PROVE  /\ pc' \in [Requests -> {"idle", "touch", "serve"} \cup Answers]
               /\ RequestsAgree'
    <2>1. RequestAgrees(q)'
      BY <1>1, <1>3 DEF TypeOK, RequestsAgree, RequestAgrees, Needs
    <2>2. \A r \in Requests \ {q} : RequestAgrees(r)'
      BY <1>1, <1>3 DEF TypeOK, RequestsAgree, RequestAgrees
    <2> QED
      BY <1>3, <2>1, <2>2 DEF TypeOK, RequestsAgree
  <1>4. ASSUME NEW q \in Requests, TouchKey(q)
        PROVE  /\ pc' = [pc EXCEPT ![q] = "serve"] /\ UNCHANGED <<via, who>>
               /\ who[q] # Nothing
    BY <1>4 DEF TouchKey, Goto, RequestsAgree, RequestAgrees
  <1>5. ASSUME NEW q \in Requests, Serve(q)
        PROVE  \E label \in Answers :
                 /\ pc' = [pc EXCEPT ![q] = label] /\ UNCHANGED <<via, who>>
                 /\ label # "refused" => who[q] # Nothing
    BY <1>5 DEF Serve, Refuse, Ingest, Read, CreateKey, RevokeKey, Goto, Permits,
                RequestsAgree, RequestAgrees
  <1>6. CASE Restart
    <2>1. UNCHANGED <<via, who>>
      BY <1>6 DEF Restart
    <2>2. \A r \in Requests :
            pc'[r] = IF pc[r] \in {"touch", "serve"} THEN "refused" ELSE pc[r]
      BY <1>6 DEF Restart
    <2>3. \A r \in Requests : RequestAgrees(r)'
      BY <1>1, <2>1, <2>2 DEF RequestsAgree, RequestAgrees, Needs
    <2> QED
      BY <1>6, <2>3 DEF Restart, TypeOK, RequestsAgree
  <1>7. CASE AllAnswered
    <2>1. UNCHANGED vars
      BY <1>7 DEF AllAnswered
    <2> QED
      BY <2>1 DEF vars, TypeOK, RequestsAgree, RequestAgrees
  <1> QED
    BY <1>2, <1>3, <1>4, <1>5, <1>6, <1>7 DEF Next, Resolve, Accepted

(* A step that serves a request has the permission it takes.               *)
LEMMA ServedStep ==
  ASSUME TypeOK, Loads(config), RequestsAgree, SoundIdentity, ServedWithinGrant, Next
  PROVE  ServedWithinGrant'
  <1>0. KeysKeep /\ IdentityKept /\ RequestsAgree'
    BY RowsStep, IdentityStep, PlacesStep
  <1> SUFFICES ASSUME NEW r \in Requests, ByKey(r)', pc'[r] \in DOMAIN Needs
               PROVE  keys'[via'[r].key].scopes \cap {Needs[pc'[r]], "admin"} # {}
    BY DEF ServedWithinGrant, Needs
  <1>1. CASE pc'[r] = pc[r]
    <2>1. who[r] # Nothing
      BY <1>1 DEF RequestsAgree, RequestAgrees
    <2>2. who'[r] = who[r] /\ via'[r] = via[r]
      BY <1>0, <2>1 DEF IdentityKept
    <2>3. ByKey(r)
      BY <2>1, <2>2 DEF ByKey
    <2>4. keys'[via[r].key].scopes = keys[via[r].key].scopes
      BY <1>0, <2>3, ByKeyKnown DEF KeysKeep, RequestsAgree, RequestAgrees, ByKey
    <2> QED
      BY <1>1, <2>2, <2>3, <2>4 DEF ServedWithinGrant
  <1>2. CASE pc'[r] # pc[r]
    <2>1. \A q \in Requests : \A label : Goto(q, label) => q = r \/ pc'[r] = pc[r]
      BY DEF Goto, TypeOK
    <2>2. ASSUME NEW q \in Requests, Resolve(q)
          PROVE  q # r /\ pc'[r] = pc[r]
      <3>1. \E label \in {"touch", "serve"} : Goto(q, label)
        BY <2>2 DEF Resolve, ResolveKey, ResolveToken, ResolveDev, Accept, TouchKey
      <3> QED
        BY <2>1, <3>1 DEF Goto, TypeOK, Needs
    <2>3. ASSUME NEW q \in Requests, Serve(q)
          PROVE  q = r \/ pc'[r] = pc[r]
      BY <2>1, <2>3 DEF Serve, Refuse, Ingest, Read, CreateKey, RevokeKey
    <2>4. ~Restart /\ ~AllAnswered
      BY <1>2 DEF Restart, AllAnswered, vars, Needs
    <2>5. Serve(r)
      BY <1>2, <2>2, <2>3, <2>4 DEF Next
    <2>6. Has(who[r].granted, Needs[pc'[r]]) /\ pc[r] = "serve"
      BY <2>5 DEF Serve, Refuse, Ingest, Read, CreateKey, RevokeKey, Permits, Goto,
                  TypeOK, Needs
    <2>7. who[r] # Nothing /\ via'[r] = via[r]
      BY <1>0, <2>6 DEF RequestsAgree, RequestAgrees, IdentityKept
    <2>8. via[r].kind = "key" /\ who[r] = KeyScope(keys[via[r].key])
      BY <2>7 DEF SoundIdentity, ByKey
    <2>9. keys'[via[r].key].scopes = keys[via[r].key].scopes
      BY <1>0, <2>8, ByKeyKnown DEF KeysKeep, RequestsAgree, RequestAgrees
    <2> QED
      BY <2>6, <2>7, <2>8, <2>9 DEF KeyScope, Has
  <1> QED
    BY <1>1, <1>2

(* Every step leaves each key in the scope of some user.                   *)
LEMMA DescentStep ==
  ASSUME TypeOK, Loads(config), RequestsAgree, SoundIdentity,
         KeysDescendFromUsers, Next
  PROVE  KeysDescendFromUsers'
  <1>0. KeysKeep /\ IdentityKept
    BY RowsStep, IdentityStep
  <1>1. ASSUME NEW r \in Requests, IsUser(r)
        PROVE  IsUser(r)' /\ who'[r] = who[r]
    BY <1>0, <1>1 DEF IdentityKept, IsUser, ByKey
  <1>2. ASSUME NEW k \in KeyIds, keys[k] # Nothing
        PROVE  \E r \in Requests : IsUser(r)' /\ SameScope(who'[r], keys'[k])
    <2>1. PICK r \in Requests : IsUser(r) /\ SameScope(who[r], keys[k])
      BY <1>2 DEF KeysDescendFromUsers
    <2> QED
      BY <1>0, <1>1, <1>2, <2>1 DEF KeysKeep, SameScope
  <1>3. CASE \A k \in KeyIds : keys'[k] # Nothing => keys[k] # Nothing
    BY <1>2, <1>3 DEF KeysDescendFromUsers
  <1>4. ASSUME NEW r \in Requests, CreateKey(r)
        PROVE  KeysDescendFromUsers'
    <2>1. PICK k \in KeyIds, scopes \in Grants :
            /\ pc[r] = "serve"
            /\ keys' = [keys EXCEPT ![k] = NewKey(who[r], scopes)]
      BY <1>4 DEF CreateKey, Permits
    <2>2. who[r] # Nothing /\ who[r] \in Scope
      BY <2>1 DEF RequestsAgree, RequestAgrees, TypeOK
    <2>3. SameScope(who[r], keys'[k]) /\ \A j \in KeyIds \ {k} : keys'[j] = keys[j]
      BY <2>1, <2>2, NewKeyTyped DEF TypeOK
    <2>4. \E q \in Requests : IsUser(q) /\ SameScope(who[q], who[r])
      <3>1. CASE IsUser(r)
        BY <3>1 DEF SameScope
      <3>2. CASE ~IsUser(r)
        <4>1. via[r].kind = "key" /\ who[r] = KeyScope(keys[via[r].key])
          BY <2>2, <3>2 DEF SoundIdentity, IsUser, ByKey
        <4>2. via[r].key \in KeyIds /\ keys[via[r].key] # Nothing
          BY <4>1, ByKeyKnown DEF RequestsAgree, RequestAgrees
        <4>3. PICK q \in Requests : IsUser(q) /\ SameScope(who[q], keys[via[r].key])
          BY <4>2 DEF KeysDescendFromUsers
        <4> QED
          BY <4>1, <4>3 DEF SameScope, KeyScope
      <3> QED
        BY <3>1, <3>2
    <2>5. \E q \in Requests : IsUser(q)' /\ SameScope(who'[q], keys'[k])
      BY <1>1, <2>3, <2>4 DEF SameScope
    <2> QED
      BY <1>2, <2>3, <2>5 DEF KeysDescendFromUsers
  <1>5. ASSUME NEW r \in Requests, Resolve(r) \/ Refuse(r) \/ Ingest(r) \/ Read(r)
                                  \/ RevokeKey(r)
        PROVE  \A k \in KeyIds : keys'[k] # Nothing => keys[k] # Nothing
    <2>1. CASE keys' = keys
      BY <2>1
    <2>2. CASE TouchKey(r)
      <3>1. keys[via[r].key] # Nothing
        BY <2>2 DEF TouchKey, RequestsAgree, RequestAgrees
      <3> QED
        BY <2>1, <2>2, <3>1 DEF TouchKey, TypeOK
    <2>3. CASE RevokeKey(r)
      BY <2>3 DEF RevokeKey, Stored, TypeOK
    <2> QED
      BY <1>5, <2>1, <2>2, <2>3 DEF Resolve, ResolveKey, ResolveToken, ResolveDev,
         Accept, Refuse, Ingest, Read
  <1>6. ASSUME Restart \/ AllAnswered
        PROVE  \A k \in KeyIds : keys'[k] # Nothing => keys[k] # Nothing
    BY <1>6 DEF Restart, AllAnswered, vars
  <1> QED
    BY <1>3, <1>4, <1>5, <1>6 DEF Next, Serve

(* Delivered savings stay attested, and new ones are.                      *)
LEMMA ReceiptsStep ==
  ASSUME TypeOK, Loads(config), RequestsAgree, SoundIdentity, ReceiptsAgree,
         DeliveredIsAttested, Next
  PROVE  receipts' \subseteq Receipt /\ ReceiptsAgree' /\ DeliveredIsAttested'
  <1>0. KeysKeep /\ IdentityKept /\ config' = config /\ DevScope' = DevScope
    BY RowsStep, IdentityStep DEF DevScope
  <1>1. ASSUME NEW c \in receipts
        PROVE  /\ c.by \in Requests /\ pc[c.by] = "ingested"
               /\ pc'[c.by] = "ingested"
               /\ who'[c.by] = who[c.by] /\ via'[c.by] = via[c.by]
    <2>1. c.by \in Requests /\ pc[c.by] = "ingested"
      BY DEF TypeOK, Receipt, ReceiptsAgree
    <2>2. ASSUME NEW r \in Requests, Resolve(r) \/ Serve(r)
          PROVE  pc'[c.by] = pc[c.by]
      <3>1. r # c.by
        BY <2>1, <2>2 DEF Resolve, Serve, ResolveKey, ResolveToken, ResolveDev, Accept,
           TouchKey, Refuse, Ingest, Read, CreateKey, RevokeKey, Permits
      <3>2. \E label : pc' = [pc EXCEPT ![r] = label]
        BY <2>2 DEF Resolve, Serve, ResolveKey, ResolveToken, ResolveDev, Accept,
           TouchKey, Refuse, Ingest, Read, CreateKey, RevokeKey, Goto
      <3> QED
        BY <2>1, <3>1, <3>2 DEF TypeOK
    <2>3. pc'[c.by] = "ingested"
      BY <2>1, <2>2 DEF Next, Restart, AllAnswered, vars
    <2> QED
      BY <1>0, <2>1, <2>3 DEF IdentityKept, RequestsAgree, RequestAgrees, Needs
  <1>2. ASSUME NEW c \in receipts, c.delivered
        PROVE  \/ /\ (who'[c.by] # Nothing /\ via'[c.by].kind = "key")
                  /\ keys'[via'[c.by].key].scopes \cap {"intercept", "admin"} # {}
               \/ config'.devAuth /\ config'.devTrusted /\ who'[c.by] = DevScope'
    <2>1. CASE ByKey(c.by) /\ keys[via[c.by].key].scopes \cap {"intercept", "admin"} # {}
      <3>1. keys'[via[c.by].key].scopes = keys[via[c.by].key].scopes
        BY <1>0, <1>1, <2>1, ByKeyKnown
           DEF ByKey, KeysKeep, RequestsAgree, RequestAgrees
      <3> QED
        BY <1>1, <2>1, <3>1 DEF ByKey
    <2>2. CASE config.devAuth /\ config.devTrusted /\ who[c.by] = DevScope
      BY <1>0, <1>1, <2>2
    <2> QED
      BY <1>2, <2>1, <2>2 DEF DeliveredIsAttested
  <1>3. CASE receipts' = receipts
    BY <1>1, <1>2, <1>3 DEF TypeOK, ReceiptsAgree, DeliveredIsAttested, ByKey
  <1>4. ASSUME NEW r \in Requests, Ingest(r)
        PROVE  receipts' \subseteq Receipt /\ ReceiptsAgree' /\ DeliveredIsAttested'
    <2>1. PICK claimed \in BOOLEAN :
            /\ pc[r] = "serve"
            /\ receipts' = receipts \cup {[by |-> r, delivered |-> Delivered(who[r], claimed)]}
            /\ pc' = [pc EXCEPT ![r] = "ingested"]
            /\ UNCHANGED <<config, keys, via, who>>
      BY <1>4 DEF Ingest, Permits, Goto
    <2>2. who[r] # Nothing /\ who[r] \in Scope
      BY <2>1 DEF RequestsAgree, RequestAgrees, TypeOK
    <2>3. Delivered(who[r], claimed) \in BOOLEAN
      BY <2>2 DEF Delivered, Scope
    <2>4. ASSUME who[r].trusted
          PROVE  \/ ByKey(r) /\ keys[via[r].key].scopes \cap {"intercept", "admin"} # {}
                 \/ config.devAuth /\ config.devTrusted /\ who[r] = DevScope
      <3>1. CASE via[r].kind = "key" /\ who[r] = KeyScope(keys[via[r].key])
        <4>1. Has(keys[via[r].key].scopes, "intercept")
          BY <2>4, <3>1 DEF KeyScope
        <4> QED
          BY <2>2, <3>1, <4>1 DEF ByKey, Has
      <3>2. CASE config.devAuth /\ who[r] = DevScope
        BY <2>4, <3>2 DEF DevScope
      <3> QED
        BY <2>2, <2>4, <3>1, <3>2 DEF SoundIdentity
    <2>5. receipts' \subseteq Receipt
      BY <2>1, <2>3 DEF TypeOK, Receipt
    <2>6. ReceiptsAgree'
      BY <1>1, <2>1 DEF ReceiptsAgree, TypeOK
    <2>7. DeliveredIsAttested'
      <3>1. ASSUME NEW c \in receipts', c.delivered
            PROVE  \/ /\ who[c.by] # Nothing /\ via[c.by].kind = "key"
                      /\ keys[via[c.by].key].scopes \cap {"intercept", "admin"} # {}
                   \/ config.devAuth /\ config.devTrusted /\ who[c.by] = DevScope
        <4>1. CASE c \in receipts
          BY <3>1, <4>1 DEF DeliveredIsAttested, ByKey
        <4>2. CASE c \notin receipts
          <5>1. c = [by |-> r, delivered |-> Delivered(who[r], claimed)]
            BY <2>1, <4>2
          <5>2. c.by = r /\ who[r].trusted
            BY <3>1, <5>1 DEF Delivered
          <5> QED
            BY <2>4, <5>2 DEF ByKey
        <4> QED
          BY <4>1, <4>2
      <3> QED
        BY <1>0, <2>1, <3>1 DEF DeliveredIsAttested, ByKey
    <2> QED
      BY <2>5, <2>6, <2>7
  <1>5. \/ receipts' = receipts
        \/ \E r \in Requests : Ingest(r)
    BY DEF Next, Resolve, Serve, ResolveKey, ResolveToken, ResolveDev, Accept, TouchKey,
       Refuse, Read, CreateKey, RevokeKey, Restart, AllAnswered, vars
  <1> QED
    BY <1>3, <1>4, <1>5

(* Where development is off, no row is ever marked lost.                   *)
LEMMA DurableStep ==
  ASSUME TypeOK, Loads(config), RequestsAgree, ProductionIsDurable, Next
  PROVE  ProductionIsDurable'
  <1> SUFFICES ASSUME ~config.devAuth, NEW k \in KeyIds, keys'[k] # Nothing
               PROVE  keys'[k].status # "lost"
    BY RowsStep DEF ProductionIsDurable
  <1>1. ~Restart
    BY DEF Loads, Restart
  <1>2. ASSUME NEW r \in Requests, CreateKey(r) \/ RevokeKey(r) \/ TouchKey(r)
        PROVE  keys'[k].status # "lost"
    <2>1. TouchKey(r) => via[r].key \in KeyIds /\ keys[via[r].key] # Nothing
      BY ByKeyKnown DEF TouchKey, RequestsAgree, RequestAgrees
    <2>2. keys[k] # Nothing => keys[k] \in Key /\ keys[k].status # "lost"
      BY DEF TypeOK, ProductionIsDurable
    <2>3. CASE CreateKey(r)
      BY <2>2, <2>3 DEF CreateKey, TypeOK, NewKey
    <2>4. CASE RevokeKey(r)
      BY <2>2, <2>4 DEF RevokeKey, TypeOK, Stored, Key
    <2>5. CASE TouchKey(r)
      BY <2>1, <2>2, <2>5 DEF TouchKey, TypeOK, Key
    <2> QED
      BY <1>2, <2>3, <2>4, <2>5
  <1>3. \/ keys' = keys
        \/ \E r \in Requests : CreateKey(r) \/ RevokeKey(r) \/ TouchKey(r)
    BY <1>1 DEF Next, Resolve, Serve, ResolveKey, ResolveToken, ResolveDev, Accept,
       Refuse, Ingest, Read, AllAnswered, vars
  <1> QED
    BY <1>2, <1>3 DEF ProductionIsDurable

-----------------------------------------------------------------------------
(* The invariant holds in every reachable state.                           *)
LEMMA InvariantStep ==
  ASSUME AccessInvariant, [Next]_vars
  PROVE  AccessInvariant'
  <1>1. CASE Next
    <2>1. TypeOK'
      BY <1>1, RowsStep, IdentityStep, PlacesStep, ReceiptsStep
         DEF AccessInvariant, TypeOK
    <2>2. Loads(config)'
      BY <1>1, RowsStep DEF AccessInvariant, Loads
    <2> QED
      BY <1>1, <2>1, <2>2, PlacesStep, SoundStep, ServedStep, DescentStep, ReceiptsStep,
         DurableStep DEF AccessInvariant
  <1>2. CASE UNCHANGED vars
    BY <1>2 DEF vars, AccessInvariant, TypeOK, Loads, RequestsAgree, RequestAgrees,
       ReceiptsAgree, SoundIdentity, DevScope, ServedWithinGrant, ByKey,
       KeysDescendFromUsers, IsUser, DeliveredIsAttested, ProductionIsDurable
  <1> QED
    BY <1>1, <1>2

(* What is known of requests, keys and receipts holds in every reachable   *)
(* state.                                                                  *)
THEOREM AccessIsInvariant == Spec => []AccessInvariant
  <1>1. Init => AccessInvariant
    <2> SUFFICES ASSUME Init PROVE AccessInvariant
      OBVIOUS
    <2>1. TypeOK
      BY DEF Init, TypeOK
    <2> QED
      BY <2>1, Kinds DEF Init, AccessInvariant, RequestsAgree, RequestAgrees, Needs,
         ReceiptsAgree, SoundIdentity, ServedWithinGrant, ByKey, KeysDescendFromUsers,
         DeliveredIsAttested, ProductionIsDurable
  <1> QED
    BY <1>1, InvariantStep, PTL DEF Spec

(* The tables and requests always have their types.                        *)
THEOREM AccessTypeCorrect == Spec => []TypeOK
  BY AccessIsInvariant, PTL DEF AccessInvariant

(* No request ever acts as somebody its credentials do not name.           *)
THEOREM IdentityAlwaysSound == Spec => []SoundIdentity
  BY AccessIsInvariant, PTL DEF AccessInvariant

(* No restart of a production process ever loses a key.                    *)
THEOREM ProductionAlwaysDurable == Spec => []ProductionIsDurable
  BY AccessIsInvariant, PTL DEF AccessInvariant

(* No key ever serves a request without the permission it takes.           *)
THEOREM AlwaysWithinGrant == Spec => []ServedWithinGrant
  BY AccessIsInvariant, PTL DEF AccessInvariant

(* No chain of keys, however long, leads out of a user's workspace.        *)
THEOREM KeysAlwaysDescend == Spec => []KeysDescendFromUsers
  BY AccessIsInvariant, PTL DEF AccessInvariant

(* Delivered savings are always attested by a trusted interceptor.         *)
THEOREM DeliveredAlwaysAttested == Spec => []DeliveredIsAttested
  BY AccessIsInvariant, PTL DEF AccessInvariant

-----------------------------------------------------------------------------
(* A key that has been revoked stays out of use.                           *)
OutOfUse(k) == keys[k] # Nothing /\ keys[k].status # "active"

LEMMA OutOfUseStays ==
  ASSUME TypeOK, RequestsAgree, NEW k \in KeyIds, OutOfUse(k), Next
  PROVE  OutOfUse(k)'
  <1>1. keys[k] \in Key
    BY DEF OutOfUse, TypeOK
  <1>2. ASSUME NEW r \in Requests, CreateKey(r) \/ RevokeKey(r) \/ TouchKey(r)
        PROVE  OutOfUse(k)'
    <2>1. CASE CreateKey(r)
      BY <2>1 DEF CreateKey, OutOfUse, TypeOK
    <2>2. CASE RevokeKey(r)
      <3>1. [keys[k] EXCEPT !.status = "revoked"] \in Key
        BY <1>1 DEF Key
      <3>2. PICK j \in KeyIds : keys' = [keys EXCEPT ![j].status = "revoked"]
        BY <2>2 DEF RevokeKey
      <3> QED
        BY <1>1, <3>1, <3>2, NothingIsNoKey DEF OutOfUse, TypeOK, Key
    <2>3. CASE TouchKey(r)
      <3>1. [keys[k] EXCEPT !.used = TRUE] \in Key
        BY <1>1 DEF Key
      <3>2. \/ keys' = [keys EXCEPT ![via[r].key].used = TRUE]
            \/ keys' = keys
        BY <2>3 DEF TouchKey
      <3>3. keys'[k] = keys[k] \/ keys'[k] = [keys[k] EXCEPT !.used = TRUE]
        BY <3>2 DEF TypeOK
      <3>4. [keys[k] EXCEPT !.used = TRUE].status = keys[k].status
        BY <1>1 DEF Key
      <3> QED
        BY <1>1, <3>1, <3>3, <3>4, NothingIsNoKey DEF OutOfUse
    <2> QED
      BY <1>2, <2>1, <2>2, <2>3
  <1>3. CASE Restart
    <2>1. /\ keys'[k] = [keys[k] EXCEPT !.status = "lost"]
          /\ [keys[k] EXCEPT !.status = "lost"] \in Key
      BY <1>1, <1>3 DEF Restart, OutOfUse, Key
    <2> QED
      BY <1>1, <2>1, NothingIsNoKey DEF OutOfUse, Key
  <1>4. CASE keys' = keys
    BY <1>4 DEF OutOfUse
  <1> QED
    BY <1>2, <1>3, <1>4 DEF Next, Resolve, Serve, ResolveKey, ResolveToken, ResolveDev,
       Accept, Refuse, Ingest, Read, AllAnswered, vars

LEMMA RevokedStep ==
  ASSUME AccessInvariant, [Next]_vars, NEW k \in KeyIds, Revoked(k)
  PROVE  /\ keys'[k].status # "active"
         /\ \A r \in Requests : who[r] = Nothing => via'[r] # KeyOf(k)
  <1>1. keys'[k].status # "active"
    BY OutOfUseStays DEF Revoked, OutOfUse, AccessInvariant, vars
  <1>2. ASSUME NEW r \in Requests, who[r] = Nothing
        PROVE  via'[r] # KeyOf(k)
    <2>1. via[r] = NoToken
      BY <1>2 DEF AccessInvariant, RequestsAgree, RequestAgrees
    <2>2. CASE UNCHANGED via
      BY <2>1, <2>2, Kinds
    <2>3. ASSUME NEW q \in Requests, ResolveToken(q) \/ ResolveDev(q)
          PROVE  via'[r] # KeyOf(k)
      <3>1. PICK token \in Tokens \cup {NoToken} : via' = [via EXCEPT ![q] = token]
        BY <2>3 DEF ResolveToken, ResolveDev, Accept
      <3> QED
        BY <2>1, <3>1, Kinds DEF AccessInvariant, TypeOK
    <2>4. ASSUME NEW q \in Requests, ResolveKey(q)
          PROVE  via'[r] # KeyOf(k)
      <3>1. PICK j \in KeyIds :
              keys[j].status = "active" /\ via' = [via EXCEPT ![q] = KeyOf(j)]
        BY <2>4 DEF ResolveKey, Accept
      <3>2. KeyOf(j) # KeyOf(k)
        BY <3>1, Kinds DEF Revoked
      <3> QED
        BY <2>1, <3>1, <3>2, Kinds DEF AccessInvariant, TypeOK
    <2> QED
      BY <2>2, <2>3, <2>4, AcceptedOrSame DEF Accepted, vars
  <1> QED
    BY <1>1, <1>2

(* Revoked is final: whatever requests are under way, a revoked key is not *)
(* made active again and lets nobody in.                                   *)
THEOREM RevokedIsFinal == Spec => RevokedKeyIsDead
  <1>1. AccessInvariant /\ [Next]_vars =>
          [\A k \in KeyIds : Revoked(k) =>
             /\ keys'[k].status # "active"
             /\ \A r \in Requests : who[r] = Nothing => via'[r] # KeyOf(k)]_vars
    BY RevokedStep
  <1> QED
    BY <1>1, AccessIsInvariant, PTL DEF Spec, RevokedKeyIsDead

(* A key that appears or is revoked does so by an administrator's request. *)
LEMMA AdminStep ==
  ASSUME AccessInvariant, Next, NEW k \in KeyIds
  PROVE  /\ keys[k] = Nothing /\ keys'[k] # Nothing => AdminActs(k, keys'[k])
         /\ ~Revoked(k) /\ Revoked(k)' => AdminActs(k, keys[k])
  <1> DEFINE Quiet == /\ keys[k] = Nothing => keys'[k] = Nothing
                      /\ ~Revoked(k) => ~Revoked(k)'
  <1>1. ASSUME NEW r \in Requests, CreateKey(r)
        PROVE  /\ keys[k] = Nothing /\ keys'[k] # Nothing => AdminActs(k, keys'[k])
               /\ ~Revoked(k) => ~Revoked(k)'
    <2>1. PICK j \in KeyIds, scopes \in Grants :
            /\ pc[r] = "serve" /\ Has(who[r].granted, "admin")
            /\ keys' = [keys EXCEPT ![j] = NewKey(who[r], scopes)]
            /\ \/ pc' = [pc EXCEPT ![r] = "created"]
               \/ pc' = [pc EXCEPT ![r] = "refused"]
      BY <1>1 DEF CreateKey, Permits, Goto
    <2>2. who[r] \in Scope /\ pc'[r] # "serve"
      BY <2>1 DEF AccessInvariant, RequestsAgree, RequestAgrees, TypeOK
    <2>3. SameScope(who[r], NewKey(who[r], scopes))
      BY <2>2, NewKeyTyped
    <2>4. keys'[k] = IF k = j THEN NewKey(who[r], scopes) ELSE keys[k]
      BY <2>1 DEF AccessInvariant, TypeOK
    <2>5. CASE k = j
      <3>1. keys'[k] = NewKey(who[r], scopes) /\ keys'[k].status = "active"
        BY <2>4, <2>5 DEF NewKey
      <3>2. AdminActs(k, keys'[k])
        BY <2>1, <2>2, <2>3, <3>1 DEF AdminActs
      <3>3. ~Revoked(k)'
        BY <3>1 DEF Revoked
      <3> QED
        BY <3>2, <3>3
    <2>6. CASE k # j
      BY <2>4, <2>6 DEF Revoked
    <2> QED
      BY <2>5, <2>6
  <1>2. ASSUME NEW r \in Requests, RevokeKey(r)
        PROVE  /\ keys[k] = Nothing => keys'[k] = Nothing
               /\ ~Revoked(k) /\ Revoked(k)' => AdminActs(k, keys[k])
    <2>1. PICK j \in KeyIds :
            /\ pc[r] = "serve" /\ Has(who[r].granted, "admin")
            /\ keys[j] # Nothing /\ InScope(who[r], keys[j])
            /\ keys' = [keys EXCEPT ![j].status = "revoked"]
            /\ \/ pc' = [pc EXCEPT ![r] = "revoked"]
               \/ pc' = [pc EXCEPT ![r] = "refused"]
      BY <1>2 DEF RevokeKey, Permits, Goto, Stored
    <2>2. pc'[r] # "serve"
      BY <2>1 DEF AccessInvariant, TypeOK
    <2>3. k # j => keys'[k] = keys[k]
      BY <2>1 DEF AccessInvariant, TypeOK
    <2> QED
      BY <2>1, <2>2, <2>3 DEF AdminActs, Revoked, InScope, SameScope
  <1>3. CASE keys' = keys
    BY <1>3 DEF Revoked
  <1>4. ASSUME NEW r \in Requests, TouchKey(r)
        PROVE  Quiet
    <2>1. keys[via[r].key] # Nothing
      BY <1>4 DEF TouchKey, AccessInvariant, RequestsAgree, RequestAgrees
    <2>2. \/ keys'[k] = keys[k]
          \/ keys[k] # Nothing /\ keys'[k] = [keys[k] EXCEPT !.used = TRUE]
      <3>1. \/ keys' = [keys EXCEPT ![via[r].key].used = TRUE]
            \/ keys' = keys
        BY <1>4 DEF TouchKey
      <3>2. CASE k = via[r].key
        BY <2>1, <3>1, <3>2 DEF AccessInvariant, TypeOK
      <3>3. CASE k # via[r].key
        BY <3>1, <3>3 DEF AccessInvariant, TypeOK
      <3> QED
        BY <3>2, <3>3
    <2>3. keys[k] # Nothing => [keys[k] EXCEPT !.used = TRUE].status = keys[k].status
      BY DEF AccessInvariant, TypeOK, Key
    <2> QED
      BY <2>2, <2>3 DEF Revoked
  <1>5. CASE Restart
    <2>1. keys[k] # Nothing => [keys[k] EXCEPT !.status = "lost"].status = "lost"
      BY DEF AccessInvariant, TypeOK, Key
    <2> QED
      BY <1>5, <2>1 DEF Restart, Revoked
  <1> QED
    BY <1>1, <1>2, <1>3, <1>4, <1>5 DEF Next, Resolve, Serve, ResolveKey, ResolveToken,
       ResolveDev, Accept, Refuse, Ingest, Read, AllAnswered, vars

(* Keys appear and are revoked only at the hand of an administrator of     *)
(* their own workspace.                                                    *)
THEOREM KeysChangedByAdmins == Spec => OnlyAdminsChangeKeys
  <1>1. AccessInvariant /\ [Next]_vars =>
          [\A k \in KeyIds :
             /\ keys[k] = Nothing /\ keys'[k] # Nothing => AdminActs(k, keys'[k])
             /\ ~Revoked(k) /\ Revoked(k)' => AdminActs(k, keys[k])]_vars
    BY AdminStep
  <1> QED
    BY <1>1, AccessIsInvariant, PTL DEF Spec, OnlyAdminsChangeKeys

=============================================================================
