SPECIFICATION Spec
CONSTANTS
    c1 = c1
    c2 = c2
    k1 = k1
    k2 = k2
    p1 = p1
    p2 = p2
    Clients = {c1, c2}
    Correlations = {k1, k2}
    Connections = {p1, p2}
    SagaIds = {1, 2}
    Clock = {1, 2}
    NoRow = NoRow
    NoCorrelation = NoCorrelation
    NoListing = NoListing
    MaxVersion = 1
    MaxRetries = 2
    PageSizes = {1}
CONSTRAINTS
    OneClock
    OneSaga
    OneInstanceOfTheAlike
    OneReader
    ListingLast
SYMMETRY Symmetry
CHECK_DEADLOCK FALSE
INVARIANTS
    StoreTypeOK
    OneRowPerKey
    RejectionsAreTrue
    RowsReachable
    ListingMissesNothing
PROPERTIES
    SwapsWhatWasRead
    InsertsAreStored
    CleanupSparesLive
    ActsAtomically
