SPECIFICATION Spec
CONSTANTS
    n1 = n1
    n2 = n2
    a = a
    b = b
    r = r
    notifications = notifications
    status = status
    party1 = party1
    party2 = party2
    g1 = g1
    g2 = g2
    Nodes <- TwoNodes
    Self = n1
    Sessions <- Locals
    NodeOf <- LocalsHome
    Streams <- TwoStreams
    Notifications = notifications
    Status = status
    SingleStreams <- NoStreams
    Goroutines <- OneGoroutine
    SingleSocket = TRUE
INVARIANTS
    ClosedUntracked
    NoJoinAfterClose
PROPERTIES
    CloseCompletes
