SPECIFICATION Spec
CONSTANTS
    a = a
    b = b
    Users = {a, b}
    NoOne = NoOne
    Aqua = Aqua
    ReserveCallers = {}
    MaxUint = 3
    MaxTime = 1
    Amounts = {2}
    Limits = {1}
    Rates = {1}
    Durations = {1}
    MaxLines = 2
    DirectParties = {}
    MaxRfqs = 1
    MaxQuotes = 1
    MaxAuctions = 0
    MaxBids = 0
INVARIANT OneLinePerRequest
CHECK_DEADLOCK FALSE
