\* One RFQ and one quote show a borrower's own quote in its book.
SPECIFICATION RFQSpec
CONSTANTS
    a = a
    b = b
    Users = {a, b}
    NoOne = NoOne
    MaxUint = 3
    MaxTime = 1
    Amounts = {1}
    Limits = {1}
    Rates = {1}
    Durations = {1}
    MaxLines = 1
    DirectParties = {}
    MaxRfqs = 1
    MaxQuotes = 1
INVARIANT NoSelfQuote
CHECK_DEADLOCK FALSE
