\* One fault: the first connection fails, and the server is there from then on.
SPECIFICATION FairSpec
CONSTANTS
    MAX_QUEUE_SIZE = 1
    MsgParts = 1
    MaxFaults = 1
    MaxWaiting = 3
PROPERTIES
    FailedIsReconnected
CHECK_DEADLOCK FALSE
