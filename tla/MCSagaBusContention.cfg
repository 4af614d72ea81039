\* Messages of one order race for its row; no faults.
SPECIFICATION MCBusSpec
CONSTANTS
    SagaNames <- OrderOnly
    CorrelationIds = {c1}
    NoCorrelation = NoCorrelation
    MessageTypes <- MCMessageTypes
    HandledTypes <- MCHandledTypes
    StartTypes <- EveryStart
    Data <- MCData
    Initial <- MCInitial
    Handler <- MCHandler
    SagaIds = {i1, i2}
    NoSaga = NoSaga
    NoRow = NoRow
    UniqueCorrelation = TRUE
    Slots = 2
    Workers <- MCWorkers
    NoJob = NoJob
    NoOutcome = NoOutcome
    NoInstance = NoInstance
    Handlers <- MCHandlers
    Endpoint <- MCEndpoint
    TimeoutType = "SagaTimeoutExpired"
    MaxAttempts <- ThreeAttempts
    CorrelationAction = "dlq"
    Redelivers = FALSE
    RequeuesRejected = FALSE
    Inputs <- OrderAndPayment
    MaxFaults = 0
    NoEnvelope = NoEnvelope
    NoTimer = NoTimer
SYMMETRY Symmetry
INVARIANTS
    BusTypeOK
    ConflictMeansProgress
    TimeoutArmed
