SPECIFICATION Spec
CONSTANTS
    s1 = s1
    s2 = s2
    s3 = s3
    u1 = u1
    u2 = u2
    u3 = u3
    Sessions <- Three
    Users <- ThreeUsers
    UserOf <- OneSessionEach
    Creator = s1
    EventLoop = EventLoop
    NoSession = NoSession
    Open = TRUE
    MaxSize = 2
    MaxTickets = 1
    EventQueueSize = 4
    MaxRequests = 2
INVARIANTS
    JoinHookIsConfirmation
