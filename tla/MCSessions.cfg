SPECIFICATION MCSpec
CONSTANTS
  Users = {u1, u2}
  SessionIds = {s1, s2, s3}
  TokenIds = {t1, t2}
  Requests = {r1, r2}
  Changes <- MCChanges
  MaxEpoch = 1
  None = None
SYMMETRY Symmetry
INVARIANTS
  RotatedOnce
  AcceptedIsCurrent
  HasAdministrator
  RecoveredOncePerToken
PROPERTIES
  RevocationIsComplete
CHECK_DEADLOCK FALSE
