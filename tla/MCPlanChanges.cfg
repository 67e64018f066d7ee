SPECIFICATION MCSpec
CONSTANTS
  Tenants = {t1}
  Plans = {free, basic}
  Operators = {o1, o2}
  Clients = {c1, c2}
  Ids = {i1, i2}
  Limits = {1, 2}
  MaxBatch = 1
  MaxChanges = 2
  FirstPlan = free
  NoId = NoId
  NoLimit = NoLimit
SYMMETRY Symmetry
INVARIANTS
  OnePending
  QuotaFollowsPlan
  LimitHolds
PROPERTIES
  DecidedOnce
CHECK_DEADLOCK FALSE
