SPECIFICATION Spec
CONSTANTS
  Requests = {r1, r2, r3, r4}
  w1 = w1  w2 = w2
  log = log  report = report
  email = email  bearer = bearer
  Workspaces <- MCWorkspaces
  Scopes <- OneScope
  Texts <- TwoTexts
  Kinds <- MCKinds
  Findings <- MCFindings
  StoreRawMode = "redacted"
  Adapter = "memory"
  Faults = TRUE
  Nothing = Nothing
SYMMETRY Symmetry
INVARIANT TotalsNeverOverclaim
