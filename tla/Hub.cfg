\* Two clients with buffers of two messages, and four broadcasts: a client
\* that writes nothing is dropped by the fourth.
SPECIFICATION FairHubSpec
CONSTANTS
    Clients = {c1, c2}
    BufferSize = 2
    MaxMessages = 4
INVARIANTS
    HubTypeOK
    ClosedOnLeaving
    NoGap
PROPERTIES
    WaitersServed
    EndsUnlessWriteHangs
\* All clients are gone, or all messages are sent.
CHECK_DEADLOCK FALSE
