SPECIFICATION Spec
CONSTANTS
  Processes = {p1, p2}
  Requests = {r1, r2}
  SlotLimit = 1
  QuotaLimit = 1
  MaxDisruptions = 1
SYMMETRY Symmetry
INVARIANTS
  CounterIsSeeded
CHECK_DEADLOCK FALSE
