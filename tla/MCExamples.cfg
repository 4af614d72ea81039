SPECIFICATION Spec
CONSTANTS
    w1 = w1
    w2 = w2
    i1 = i1
    i2 = i2
    i3 = i3
    Workers = {w1, w2}
    Ids = {i1, i2, i3}
    Setups <- MCSetups
    Replies <- MCReplies
    MaxAttempts = 2
    MaxOpen <- MCMaxOpen
    MaxFaults <- MCMaxFaults
    NoSaga = NoSaga
    NoEnvelope = NoEnvelope
SYMMETRY Symmetry
CONSTRAINT FewLate
INVARIANTS
    ExamplesTypeOK
    StepsNotSkipped
    OwnMessagesArrive
    ProcessedOnce
    NothingForgotten
    CountedOnce
CHECK_DEADLOCK FALSE
