SPECIFICATION MCSpec
CONSTANTS
  founder = founder
  moderator = moderator
  visitor = visitor
  Accounts = {founder, moderator, visitor}
  FirstOwner = founder
  Position <- MCPosition
  Granted <- MCGranted
  Durations = {1}
  AppealWindow = 0
  MaxTime = 2
  MaxRestrictions = 2
  MaxInvitations = 1
  MaxUses = 2
  MaxStamps = 1
  Plans = {"moderation", "refusals", "invitations", "pacing", "retries", "changes"}
  Requests = {r1, r2}
  Keys = {k1, k2}
  Bodies = {b1, b2}
  SlowModes = {0, 1}
  MaxMessages = 2
  MaxEdits = 2
INVARIANTS OwnersSound InvitationAccounted PostsSound EvidenceKept
PROPERTIES PostedWithAuthority
SYMMETRY Interchangeable
CHECK_DEADLOCK FALSE
