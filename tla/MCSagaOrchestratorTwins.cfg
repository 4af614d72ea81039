\* Does the in-memory store keep one instance per correlation id?
SPECIFICATION BoundedSpec
CONSTANTS
    SagaNames = {order}
    CorrelationIds = {c1}
    NoCorrelation = NoCorrelation
    MessageTypes <- MCMessageTypes
    HandledTypes <- MCHandledTypes
    StartTypes <- MCStartTypes
    Data <- MCData
    Initial <- MCInitial
    Handler <- MCHandler
    SagaIds = {i1, i2}
    NoSaga = NoSaga
    NoRow = NoRow
    UniqueCorrelation = FALSE
    Workers = {w1, w2}
    NoJob = NoJob
    NoOutcome = NoOutcome
    NoInstance = NoInstance
    MaxVersion = 2
SYMMETRY Symmetry
PROPERTIES
    StartsOnlyWhenAbsent
