CONSTANTS
    e1 = e1
    e2 = e2
    e3 = e3
    e4 = e4
    p1 = p1
    p2 = p2
    u1 = u1
    u2 = u2
    k1 = k1
    Events = {e1, e2, e3, e4}
    Products = {p1, p2}
    Users = {u1, u2}
    Keys = {k1}
    Calls = {c1, c2}
    Submissions <- MCSubmissions
    EventLimit = 2
    ProductLimit = 1
    LastMonth = 1
    None = None
SPECIFICATION Spec
SYMMETRY Symmetry
INVARIANTS
    CountedOnce
    MonthlyLimitHolds
    ReplaysAgree
PROPERTIES
    KeepsBooks
