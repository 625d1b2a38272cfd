CONSTANTS
    Consumer = worker
    Api = api
    Processes = {worker, api}
    Types = {"rfq_created"}
    MaxBlocks = 1
    MaxFaults = 0
    MaxRequests = 1
    Messages <- MCMessages
SPECIFICATION Spec
INVARIANT RowsNameBorrower
\* the system stops when the bounds on blocks, requests and faults are reached
CHECK_DEADLOCK FALSE
