\* Four blocks, loaded one or two at a time, so that the fetcher can miss a
\* block before, while and after the loader brings it in; two readers of the
\* file, one after the other, so that the fetcher can be left with the first.
SPECIFICATION FairSpec
CONSTANTS
    m_file_blocks_count = 4
    MIN_LOAD_BLOCKS_COUNT = 1
    Speeds = {0, 2}
    Fetcher = {f1}
    MaxReaders = 2
INVARIANTS
    TypeOK
    LoadedIsCached
    EveryBlockHasChecksum
PROPERTIES
    MissedIsLoaded
\* After the last reader has ended there may be nothing left to do.
CHECK_DEADLOCK FALSE
