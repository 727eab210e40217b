\* Two messages in the queue, of two parts each, two faults.
SPECIFICATION FairSpec
CONSTANTS
    MAX_QUEUE_SIZE = 2
    MsgParts = 2
    MaxFaults = 2
    MaxWaiting = 2
INVARIANTS
    TypeOK
    QueueHasOneWriter
    ActiveIsRead
PROPERTIES
    PeerGetsWholeMessages
    QueueMoves
CHECK_DEADLOCK FALSE
