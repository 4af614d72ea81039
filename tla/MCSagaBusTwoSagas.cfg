\* Two sagas handle the same message: is it lost to either half-way through the loop, and
\* how far do retries and redeliveries multiply it?
SPECIFICATION MCBusSpec
CONSTANTS
    SagaNames <- OrderAndAudit
    CorrelationIds = {c1}
    NoCorrelation = NoCorrelation
    MessageTypes <- MCMessageTypes
    HandledTypes <- MCHandledTypes
    StartTypes <- MCStartTypes
    Data <- MCData
    Initial <- MCInitial
    Handler <- MCSilentHandler
    SagaIds = {i1, i2, i3, i4}
    NoSaga = NoSaga
    NoRow = NoRow
    UniqueCorrelation = TRUE
    Slots = 1
    Workers <- MCWorkers
    NoJob = NoJob
    NoOutcome = NoOutcome
    NoInstance = NoInstance
    Handlers <- MCHandlers
    Endpoint <- MCEndpoint
    TimeoutType = "SagaTimeoutExpired"
    MaxAttempts <- ThreeAttempts
    CorrelationAction = "dlq"
    Redelivers = TRUE
    RequeuesRejected = TRUE
    Inputs <- OneOrderAndStray
    MaxFaults = 4
    NoEnvelope = NoEnvelope
    NoTimer = NoTimer
SYMMETRY Symmetry
INVARIANTS
    Accounted
    AmplificationBound
