--------------------------- MODULE AccessProperties ---------------------------
(***************************************************************************)
(* What must hold of Access.                                               *)
(***************************************************************************)
EXTENDS Access

(* The permission an answer takes, by its place in serve (router.go:99).   *)
Needs == [ingested |-> "ingest", read |-> "read", retrieved |-> "retrieve",
          created |-> "admin", revoked |-> "admin"]

ByKey(r) == who[r] # Nothing /\ via[r].kind = "key"

(* Somebody the identity provider or the operator vouches for.             *)
IsUser(r) == who[r] # Nothing /\ ~ByKey(r)

SameScope(a, b) == a.tenant = b.tenant /\ a.workspace = b.workspace

(* Whoever is authenticated is who the credentials say, now and as long as *)
(* the request runs: the key's row as it still stands, the claims of a     *)
(* token signed with the configured secret, or the developer, and he only  *)
(* where development is enabled and tokens are not (resolver.go:25-103).   *)
SoundIdentity ==
  \A r \in Requests : who[r] # Nothing =>
    \/ via[r].kind = "key" /\ who[r] = KeyScope(keys[via[r].key])
    \/ /\ via[r].kind = "jwt" /\ via[r].signedWith # Empty
       /\ via[r].signedWith = config.jwtSecret
       /\ who[r].tenant = via[r].tenant
       /\ ~who[r].trusted
    \/ /\ via[r].kind # "key"
       /\ via[r].kind = "none" \/ config.jwtSecret = Empty
       /\ config.devAuth /\ who[r] = DevScope

(* No request is served by a key that lacks the permission, whatever       *)
(* happened between the look-up of the key and the answer                  *)
(* (resolver.go:104-117, router.go:78-221).                                *)
ServedWithinGrant ==
  \A r \in Requests :
    ByKey(r) /\ pc[r] \in DOMAIN Needs =>
      keys[via[r].key].scopes \cap {Needs[pc[r]], "admin"} # {}

(* However many keys are made with keys, each is in the tenant and the     *)
(* workspace of a user who started that line of keys: no chain of keys     *)
(* leads out of a workspace (service.go:104, resolver.go:46).              *)
KeysDescendFromUsers ==
  \A k \in KeyIds : keys[k] # Nothing =>
    \E r \in Requests : IsUser(r) /\ SameScope(who[r], keys[k])

(* Delivered savings are recorded only for a key with the intercept or the *)
(* admin scope, or a development set-up that says so (architecture.md:36,  *)
(* "Only a trusted interceptor can attest delivered savings";              *)
(* service.go:167).                                                        *)
DeliveredIsAttested ==
  \A c \in receipts : c.delivered =>
    \/ ByKey(c.by) /\ keys[via[c.by].key].scopes \cap {"intercept", "admin"} # {}
    \/ config.devAuth /\ config.devTrusted /\ who[c.by] = DevScope

(* In production no restart loses keys: "The in-memory adapters are        *)
(* development-only" (architecture.md:29; config.go:29, main.go:26).       *)
ProductionIsDurable ==
  ~config.devAuth => \A k \in KeyIds : keys[k] # Nothing => keys[k].status # "lost"

Revoked(k) == keys[k] # Nothing /\ keys[k].status = "revoked"

(* Revoked is final: no step makes a revoked key active again, although    *)
(* requests it let in before still touch its row, and no step lets anybody *)
(* in by it (store.go:187, 205-226; postgres.go:275, 293, 300).            *)
RevokedKeyIsDead ==
  [][\A k \in KeyIds : Revoked(k) =>
       /\ keys'[k].status # "active"
       /\ \A r \in Requests : who[r] = Nothing => via'[r] # KeyOf(k)]_vars

(* A key appears or is revoked only at the hand of a request with the      *)
(* admin permission in the key's own workspace (service.go:104, 111;       *)
(* store.go:209; postgres.go:293).                                         *)
AdminActs(k, row) ==
  \E r \in Requests :
    /\ pc[r] = "serve" /\ pc'[r] # "serve"
    /\ Has(who[r].granted, "admin")
    /\ SameScope(who[r], row)

OnlyAdminsChangeKeys ==
  [][\A k \in KeyIds :
       /\ keys[k] = Nothing /\ keys'[k] # Nothing => AdminActs(k, keys'[k])
       /\ ~Revoked(k) /\ Revoked(k)' => AdminActs(k, keys[k])]_vars

-----------------------------------------------------------------------------
(* The inductive invariant.                                                *)

(* What is known of a request at each of its places.                       *)
RequestAgrees(r) ==
  /\ pc[r] = "idle" => who[r] = Nothing
  /\ who[r] = Nothing => via[r] = NoToken
  /\ pc[r] = "touch" => via[r].kind = "key"
  /\ pc[r] \in {"touch", "serve"} \cup DOMAIN Needs => who[r] # Nothing
  /\ via[r].kind = "key" => keys[via[r].key] # Nothing

RequestsAgree == \A r \in Requests : RequestAgrees(r)

ReceiptsAgree == \A c \in receipts : pc[c.by] = "ingested"

AccessInvariant ==
  /\ TypeOK /\ Loads(config) /\ RequestsAgree /\ ReceiptsAgree
  /\ SoundIdentity /\ ServedWithinGrant /\ KeysDescendFromUsers
  /\ DeliveredIsAttested /\ ProductionIsDurable

=============================================================================
