\* One publish of a timeout message fails.  Is every timeout an instance shows published
\* in the end, once every message has succeeded?
SPECIFICATION MCArmingFailsSpec
CONSTANTS
    SagaNames <- OrderOnly
    CorrelationIds = {c1}
    NoCorrelation = NoCorrelation
    MessageTypes <- MCMessageTypes
    HandledTypes <- MCHandledTypes
    StartTypes <- MCStartTypes
    Data <- MCData
    Initial <- MCInitial
    Handler <- MCOnceHandler
    SagaIds = {i1, i2}
    NoSaga = NoSaga
    NoRow = NoRow
    UniqueCorrelation = TRUE
    Slots = 1
    Workers <- MCWorkers
    NoJob = NoJob
    NoOutcome = NoOutcome
    NoInstance = NoInstance
    Handlers <- MCHandlers
    Endpoint <- MCEndpoint
    TimeoutType = "SagaTimeoutExpired"
    MaxAttempts <- TwoAttempts
    CorrelationAction = "dlq"
    Redelivers = FALSE
    RequeuesRejected = FALSE
    Inputs <- OneOrder
    MaxFaults = 1
    NoEnvelope = NoEnvelope
    NoTimer = NoTimer
SYMMETRY Symmetry
INVARIANTS
    ShownTimeoutsArePublished
