\* Two threads, four buffers: both may write while the loop is at work.
SPECIFICATION Spec
CONSTANTS
    Writer = {w1, w2}
    MaxBufs = 4
INVARIANTS
    TypeOK
    GivenOnceInOrder
PROPERTIES
    EveryBufferIsReleased
