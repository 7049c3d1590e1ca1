SPECIFICATION MCSpec
CONSTANTS
  Requests = {r1, r2}
  SessionIds = {s1}
  Passwords = {p1, p2}
  InitialFormat = "current"
  MaxVersion = 3
  Tokens = {t1, t2}
  Methods = {m1, m2}
  Keys = {k1}
  ColumnMax = 3
  EveryEpoch = 4
  Backups = {b1, b2}  Count = 1  Days = 0  Incomplete = 0  MaxHour = 1  MaxWrites = 1
  Migrations <- MCMigrations
  Target = "new"
  Migrators <- MCMigrators
  Servers <- MCServers
  Policies <- MCPolicies
  Conditions <- MCConditions
INVARIANTS UsableKnowsPassword SchemaKept
PROPERTIES ImplementsSessions ChangeProvesCurrent PasswordMovesWithVersion TokensSound BackupsKept
SYMMETRY Interchangeable
CHECK_DEADLOCK FALSE
