\* The send queue fills up at two messages, so four sends cover a refusal, a
\* self-send during a batch, and three batches.
SPECIFICATION FairSpec
CONSTANTS
    Capacity = 2
    MaxSends = 4
INVARIANTS
    TypeOK
    StopTakesAtMostOneMoreBatch
    HandledInOrder
    EveryMessageAccountedFor
PROPERTIES
    NothingHandledAfterStop
    ImplementsMailbox
    AcceptedIsHandled
    StopReturns
\* A stopped module really stops.
CHECK_DEADLOCK FALSE
