\* Three threads: a holder, one notified and one that gets in between.
SPECIFICATION FairSpec
CONSTANTS
    Thread = {t1, t2, t3}
    MaxWrites = 4
INVARIANTS
    TypeOK
    MutualExclusion
    NoLostWakeup
PROPERTIES
    WritersPreferred
    NobodyStarves
