SPECIFICATION MCSpec
CONSTANTS
  Requests = {r1, r2}
  SessionIds = {s1, s2}
  Passwords = {p1, p2}
  InitialFormat = "outdated"
  MaxVersion = 2
  job = job
  moderator = moderator
PROPERTIES PasswordMovesWithVersion
SYMMETRY Interchangeable
CHECK_DEADLOCK FALSE
