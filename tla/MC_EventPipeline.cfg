CONSTANTS
    Consumer = worker
    Api = api
    Processes = {worker, api}
    Types = {"rfq_created", "auction_created"}
    MaxBlocks = 3
    MaxFaults = 2
    MaxRequests = 1
    Messages <- MCMessages
SPECIFICATION FairSpec
INVARIANTS
    PipelineTypeOK
    PublishedInOrder
    NothingSkipped
    RowsInOrder
PROPERTIES
    MonitorCatchesUp
    EverySaved
\* The bounds stop the system: all blocks, requests and failures are used up.
CHECK_DEADLOCK FALSE
