\* Two transfers of two blocks each.
SPECIFICATION Spec
CONSTANTS
    Key = {k1, k2}
    MaxBlock = 2
INVARIANTS
    RemovedIsGone
CHECK_DEADLOCK FALSE
