SPECIFICATION MigrationSpec
CONSTANTS
  a = a
  b = b
  c = c
  u = u
  v = v
  NoOne = NoOne
  Replicas <- MCReplicas
  Migrating <- MCMigrating
  Writers <- MCWriters
  Home <- MCHome
INVARIANT NobodyCollides
INVARIANT ServesMigrated
PROPERTY EveryStartEnds
PROPERTY EveryCommitEnds
