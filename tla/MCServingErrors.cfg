CONSTANTS
    p1 = p1
    p2 = p2
    Products = {p1, p2}
    RequestIds = {q1}
    Attempts = {a1}
    Inputs <- MCInputs
    None = None
SPECIFICATION Spec
PROPERTY FailuresAreRecorded
