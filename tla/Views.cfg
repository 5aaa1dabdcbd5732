SPECIFICATION ViewsSpec
CONSTANTS
  Requests = {r1, r2, r3}
  Readers = {q1}
  w1 = w1  w2 = w2
  log = log  report = report
  email = email  bearer = bearer
  Workspaces <- MCWorkspaces
  Scopes <- TwoScopes
  Texts <- MCTexts
  Kinds <- MCKinds
  Findings <- MCFindings
  StoreRawMode = "redacted"
  Adapter = "postgres"
  Faults = TRUE
  Nothing = Nothing
SYMMETRY Symmetry
INVARIANT ViewsTypeOK
INVARIANT ViewsAreCovered
INVARIANT ViewsStayInScope
INVARIANT AcknowledgedIsListed
