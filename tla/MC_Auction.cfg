\* Two auctions with two bids each, created, bid on and settled at different
\* times; an auction created or settled at the last time overflows MaxUint.
SPECIFICATION AuctionSpec
CONSTANTS
    a = a
    b = b
    Users = {a, b}
    NoOne = NoOne
    NoDeal = NoDeal
    MaxUint = 5
    MaxTime = 4
    Amounts = {2}
    Limits = {1, 2}
    Rates = {1, 2}
    Durations = {2}
    MaxLines = 2
    DirectParties = {}
    MaxAuctions = 2
    MaxBids = 2
SYMMETRY UserSymmetry
INVARIANTS
    BestBidWins
    BidsInWindow
    SettledOnceAsWon
PROPERTIES
    OutcomeFixed
    AuctionKeepsPromise
\* The bounds stop the system: all auctions, lines and time are used up.
CHECK_DEADLOCK FALSE
