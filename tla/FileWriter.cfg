\* Two blocks, and with the numbers past the end and with the one that wraps
\* round five of them, so that a failure can come between blocks that are
\* written with one call and one block can be written over another; two
\* transfers of the file, so that notices of the first can meet the second and
\* the second can fail to open what the first left.
SPECIFICATION FairSpec
CONSTANTS
    m_file_blocks_count = 2
    MaxTransfers = 2
INVARIANTS
    TypeOK
    AcceptedOnceAndKept
    FileIsSound
PROPERTIES
    AcceptedReachesDisk
\* After the last transfer, or a failed assertion, nothing is left to do.
CHECK_DEADLOCK FALSE
