\* Does a restarted bus keep to its concurrency?
SPECIFICATION LifecycleSpec
CONSTANTS
    Endpoints <- MCEndpoints
    HandledEndpoints <- MCHandledEndpoints
    Messages = {m1, m2}
    Callers = {a}
    MaxStarts = 2
    Concurrency <- OneAtATime
    MaxSubscriptions = 2
CHECK_DEADLOCK FALSE
SYMMETRY Symmetry
INVARIANTS
    ConcurrencyLimited
