SPECIFICATION Spec
CONSTANTS
  Requests = {r1, r2, r3}
  w1 = w1  w2 = w2
  log = log  report = report
  email = email  bearer = bearer
  Workspaces <- MCWorkspaces
  Scopes <- OneScope
  Texts <- OneText
  Kinds <- MCKinds
  Findings <- MCFindings
  StoreRawMode = "redacted"
  Adapter = "postgres"
  Faults = FALSE
  Nothing = Nothing
INVARIANT SessionTotalsExact
