\* One RFQ with up to two quotes among lines that anyone opens directly and
\* draws on.  A duration of 3 overflows MaxUint when it is added to the last
\* time.
SPECIFICATION RFQSpec
CONSTANTS
    a = a
    b = b
    Users = {a, b}
    NoOne = NoOne
    NoDeal = NoDeal
    MaxUint = 4
    MaxTime = 2
    Amounts = {1, 2}
    Limits = {1, 2}
    Rates = {1}
    Durations = {1, 3}
    MaxLines = 2
    DirectParties = {a, b}
    MaxRfqs = 1
    MaxQuotes = 2
SYMMETRY UserSymmetry
INVARIANTS
    AcceptanceConsistent
    ExecutedOnceAsQuoted
    DrawnWithinLimit
PROPERTIES
    NothingRewritten
    RfqKeepsPromise
\* The bounds stop the system: all RFQs, lines and time are used up.
CHECK_DEADLOCK FALSE
