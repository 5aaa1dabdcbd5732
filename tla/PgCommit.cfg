SPECIFICATION PgSpec
CONSTANTS
  Requests = {r1, r2, r3}
  w1 = w1
  report = report
  email = email
  Workspaces <- MCWorkspaces
  Scopes <- OneScope
  Texts <- MCTexts
  Kinds <- MCKinds
  Findings <- MCFindings
  StoreRawMode = "redacted"
  Adapter = "postgres"
  Faults = TRUE
  PoolSize = 2
  Nothing = Nothing
INVARIANT PgConsistent
PROPERTY ImplementsAtomicCommit
PROPERTY EveryCallEnds
