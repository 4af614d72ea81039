\* Two calls at a time on one order, a store with a unique correlation index.
SPECIFICATION BoundedSpec
CONSTANTS
    SagaNames = {order}
    CorrelationIds = {c1}
    NoCorrelation = NoCorrelation
    MessageTypes <- MCMessageTypes
    HandledTypes <- MCHandledTypes
    StartTypes <- MCStartTypes
    Data <- MCData
    Initial <- MCInitial
    Handler <- MCHandler
    SagaIds = {i1, i2}
    NoSaga = NoSaga
    NoRow = NoRow
    UniqueCorrelation = TRUE
    Workers = {w1, w2}
    NoJob = NoJob
    NoOutcome = NoOutcome
    NoInstance = NoInstance
    MaxVersion = 3
SYMMETRY Symmetry
INVARIANTS
    TypeOK
    HeldIsPast
    OneInstancePerKey
PROPERTIES
    CompletedIsFinal
    AtomicSpec
