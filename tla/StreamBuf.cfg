\* A buffer of two bytes that may grow twice, and pieces of up to three: data
\* that fits, that needs one doubling and that needs two.
SPECIFICATION Spec
CONSTANTS
    Byte = {0, 1}
    InitLen = 2
    MAX_BYTE_BUF_LEN = 8
    MaxPut = 3
INVARIANTS
    TypeOK
PROPERTIES
    ImplementsByteQueue
