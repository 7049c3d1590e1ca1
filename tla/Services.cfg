SPECIFICATION MCSpec
CONSTANTS
  Baseline <- MCBaseline
  Offers <- MCOffers
  Paths <- MCPaths
  Sources <- MCSources
  MaxGeneration = 4
  MaxEntries = 4
  s1 = s1  p1 = p1  p2 = p2  e1 = e1  e2 = e2  e3 = e3
  n1 = n1  f1 = f1  m1 = m1  m2 = m2  d1 = d1
  q1 = q1  q2 = q2  q3 = q3
  Owners = {q1}  Viewers = {q2}
  Interval = 1  Ttl = 1  MaxSecond = 2  MaxBeats = 2  MaxAsks = 1  MaxStatus = 1
  Transactions = {q1, q2}
  Attempts = 2  TrailPage = 2  MaxTransactions = 3  MaxLosses = 1
  MaxAccounts = 2  Accounts = {"a", "b"}  Operations = {q1, q2}  Payloads = {q1}
INVARIANTS AlwaysLaunchable PresenceKept AuditKept
PROPERTIES GovernanceKept NotificationsKept MovesAreSupported DeliveryKept CredentialsKept ReleasesKept
CHECK_DEADLOCK FALSE
