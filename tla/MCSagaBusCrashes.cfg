\* Processes die, publishing fails, and the transport redelivers.
SPECIFICATION MCFairBusSpec
CONSTANTS
    SagaNames <- OrderOnly
    CorrelationIds = {c1}
    NoCorrelation = NoCorrelation
    MessageTypes <- MCMessageTypes
    HandledTypes <- MCHandledTypes
    StartTypes <- MCStartTypes
    Data <- MCData
    Initial <- MCInitial
    Handler <- MCHandler
    SagaIds = {i1}
    NoSaga = NoSaga
    NoRow = NoRow
    UniqueCorrelation = TRUE
    Slots = 1
    Workers <- MCWorkers
    NoJob = NoJob
    NoOutcome = NoOutcome
    NoInstance = NoInstance
    Handlers <- MCHandlers
    Endpoint <- MCEndpoint
    TimeoutType = "SagaTimeoutExpired"
    MaxAttempts <- TwoAttempts
    CorrelationAction = "dlq"
    Redelivers = TRUE
    RequeuesRejected = TRUE
    Inputs <- OneOrder
    MaxFaults = 2
    NoEnvelope = NoEnvelope
    NoTimer = NoTimer
INVARIANTS
    OwnSendsFindSaga
PROPERTIES
    EventuallySettled
