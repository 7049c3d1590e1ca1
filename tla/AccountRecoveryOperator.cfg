SPECIFICATION MCSpec
CONSTANTS
  Requests = {r1, r2}
  SessionIds = {}
  Passwords = {p1, p2}
  InitialFormat = "current"
  MaxVersion = 2
  Tokens = {t1}
  Methods = {}
  Keys = {k1}
  ColumnMax = 3
  EveryEpoch = 4
  Backups = {b1, b2}  Count = 1  Days = 0  Incomplete = 0  MaxHour = 1  MaxWrites = 1
  Migrations <- MCMigrations
  Target = "new"
  Migrators <- MCMigrators
  Servers <- MCServers
  Policies <- MCPolicies
  Conditions <- MCConditions
INVARIANTS OperatorsObeyed
SYMMETRY Interchangeable
CHECK_DEADLOCK FALSE
