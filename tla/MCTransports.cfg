SPECIFICATION Spec
CONSTANTS
    orders = orders
    loans = loans
    now = now
    later = later
    again = again
    p1 = p1
    p2 = p2
    Endpoints <- MCEndpoints
    Messages <- MCMessages
    Address <- MCAddress
    Delayed <- MCDelayed
    Processes <- MCProcesses
    Serves <- MCServes
    NoStreams = NoStreams
    MaxFaults <- MCMaxFaults
    MaxCopies = 2
    MaxAttempts = 3
    MaxDeliver = 2
    Partitions = {0, 1}
    Partition <- MCPartition
CONSTRAINTS
    FewMessages
    SubscribesFirst
CHECK_DEADLOCK FALSE
INVARIANTS
    TransportsTypeOK
    NothingLost
    NeverEarly
    ReconnectsDoNotMultiply
PROPERTIES
    CommittedIsKept
    CoveredIsHandled
    
