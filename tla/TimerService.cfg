\* Two timers, so that one can add or remove the other from its callback;
\* periods of less than half a tick, of one and (rounded) two ticks; four ticks, so that
\* the module can lag behind the generator and still sweep.  The generator
\* stops at MaxTick, as it does when the program ends, and the module with it.
SPECIFICATION FairSpec
CHECK_DEADLOCK FALSE
CONSTANTS
    MAX_TIMER_ID = 2
    Period = {40, 100, 150}
    TriggerTimes = {0, 1, 3}
    MaxTick = 4
INVARIANTS
    TypeOK
    NeverTooOften
    NoDrift
    CallsAreCounted
    SweepIsExact
PROPERTIES
    OncePerTick
    DueIsCalled
