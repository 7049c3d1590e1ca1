SPECIFICATION MCSpec
CONSTANTS
  Instances = {i1}
  Calls = {c1, c2}
  Keys = {k1, k2, k3}
  Sensitive = {k1}
  Limit = 1
  CircuitFailures = 2
  LocalBuckets = 1
  MaxCalls = 3
  MaxWindow = 1
  MaxFaults = 2
  Requests = {q1, q2}
  Messages = {1, 2}
INVARIANTS WithinLimit
PROPERTIES OutageSurvived ShutdownSound ClientSound
CHECK_DEADLOCK FALSE
