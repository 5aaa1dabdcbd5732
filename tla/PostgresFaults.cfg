SPECIFICATION Spec
CONSTANTS
  Requests = {r1, r2, r3}
  w1 = w1  w2 = w2
  log = log  report = report
  email = email  bearer = bearer
  Workspaces <- MCWorkspaces
  Scopes <- ManyScopes
  Texts <- TwoTexts
  Kinds <- MCKinds
  Findings <- MCFindings
  StoreRawMode = "redacted"
  Adapter = "postgres"
  Faults = TRUE
  Nothing = Nothing
SYMMETRY Symmetry
INVARIANT Consistent
INVARIANT EvidenceIsWhole
INVARIANT AcknowledgedIngestIsRetrievable
INVARIANT StaysInScope
PROPERTY ImplementsLedger
