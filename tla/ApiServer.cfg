\* Three concurrent requests, a clock that reaches two seconds, and pages of
\* one row.
SPECIFICATION FairSpec
CONSTANTS
    Requests = {r1, r2, r3}
    Prices = {1, 2}
    MaxTime = 2
    PageSize = 1
INVARIANTS
    ApiTypeOK
    PagesComplete
    AnswersTrue
    NoNonceGap
    SuccessAccounted
PROPERTY PoolDrains
\* All requests are answered.
CHECK_DEADLOCK FALSE
