\* Two callers start and stop the bus at will while messages come in.
SPECIFICATION FairLifecycleSpec
CONSTANTS
    Endpoints <- MCEndpoints
    HandledEndpoints <- MCHandledEndpoints
    Messages = {m1, m2}
    Callers = {a, b}
    MaxStarts = 2
    Concurrency <- OneAtATime
    MaxSubscriptions = 2
CHECK_DEADLOCK FALSE
INVARIANTS
    LifecycleTypeOK
    SemaphoreSound
    StartedMeansSubscribed
    StartedOnceIsLimited
PROPERTIES
    WaitersRun
    AcceptedIsHandled
