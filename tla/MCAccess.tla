------------------------------- MODULE MCAccess -------------------------------
(***************************************************************************)
(* Small instances of Access.                                              *)
(***************************************************************************)
EXTENDS AccessProperties, TLC

CONSTANTS acme, rival, app, secret

MCTenants == {acme, rival}
MCNames   == {app}
MCSecrets == {secret}

(* Every database and secret, with development settings or without.       *)
MCConfigs ==
  [devAuth : {TRUE}, devTenant : {acme, Empty}, devWorkspace : {app},
   devTrusted : BOOLEAN, jwtSecret : {secret, Empty}, database : BOOLEAN]
  \cup
  [devAuth : {FALSE}, devTenant : {Empty}, devWorkspace : {Empty},
   devTrusted : {FALSE}, jwtSecret : {secret, Empty}, database : BOOLEAN]

Jwt(signed, tenant, workspace) ==
  [kind |-> "jwt", signedWith |-> signed, tenant |-> tenant,
   workspace |-> workspace, user |-> TRUE]

(* Sessions of both tenants, one without a workspace, and a token that is  *)
(* signed with the empty secret.                                           *)
MCTokens ==
  {Jwt(secret, acme, Empty), Jwt(secret, rival, app), Jwt(Empty, rival, app)}

(* The default, a reader, an interceptor and an administrator.             *)
MCGrants == {{}, {"read"}, {"ingest", "intercept"}, {"admin"}}

Symmetry == Permutations(Requests) \cup Permutations(KeyIds)

=============================================================================
