SPECIFICATION MCSpec
CONSTANTS
  Jobs = {j1}
  Workers = {w1, w2}
  MaxAttempts = 3
  MaxProgress = 2
  MaxFaults = 2
  Messages = {1, 2}
INVARIANTS RowsSound
PROPERTIES CheckpointsSound Implements QueueSettles RetentionKept
CHECK_DEADLOCK FALSE
