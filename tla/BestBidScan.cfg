\* Every book of one to four bids over two rates and two limits.
SPECIFICATION ScanSpec
CONSTANTS
    Rates = {1, 2}
    Limits = {1, 2}
    MaxBids = 4
INVARIANT ScanSelectsBest
\* The loop ends.
CHECK_DEADLOCK FALSE
