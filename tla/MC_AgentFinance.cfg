SPECIFICATION Spec
CONSTANTS
    a = a
    b = b
    Users = {a, b}
    NoOne = NoOne
    Aqua = Aqua
    ReserveCallers = {a, b}
    MaxUint = 3
    MaxTime = 2
    Amounts = {2}
    Limits = {1, 2}
    Rates = {1}
    Durations = {1}
    MaxLines = 2
    DirectParties = {}
    MaxRfqs = 1
    MaxQuotes = 2
    MaxAuctions = 1
    MaxBids = 2
SYMMETRY UserSymmetry
INVARIANTS
    TypeOK
    LinksRight
    LinesDisjoint
PROPERTY ReservedAsOpened
\* The bounds stop the system: all requests, lines and time are used up.
CHECK_DEADLOCK FALSE
