SPECIFICATION Spec
CONSTANTS
  Processes = {p1, p2}
  Requests = {r1, r2}
  SlotLimit = 1
  QuotaLimit = 1
  MaxDisruptions = 4
SYMMETRY Symmetry
INVARIANTS
  LocalSlotsAccounted
  SharedSlotsAccounted
  QuotaHolds
  OpenIsProbed
CHECK_DEADLOCK FALSE
