SPECIFICATION Spec
CONSTANTS
  Requests = {r1, r2, r3}
  KeyIds = {k1, k2}
  acme = acme  rival = rival  app = app
  secret = secret
  Tenants <- MCTenants
  Names <- MCNames
  Secrets <- MCSecrets
  Configs <- MCConfigs
  Tokens <- MCTokens
  Grants <- MCGrants
  Faults = TRUE
  Empty = Empty
  Nothing = Nothing
SYMMETRY Symmetry
INVARIANT TypeOK
INVARIANT SoundIdentity
INVARIANT ServedWithinGrant
INVARIANT KeysDescendFromUsers
INVARIANT DeliveredIsAttested
INVARIANT ProductionIsDurable
PROPERTY RevokedKeyIsDead
PROPERTY OnlyAdminsChangeKeys
