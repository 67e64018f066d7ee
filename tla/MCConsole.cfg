CONSTANTS
    Accounts = {a1, a2}
    Asks = {c1, c2}
    LastPair = 3
    LastVersion = 1
    Nobody = Nobody
SPECIFICATION ConsoleSpec
SYMMETRY Symmetry
INVARIANTS
    ShownIsOwn
    ReadsYourWrites
    WritesOnce
    RefreshedOnce
PROPERTIES
    SessionSurvives
