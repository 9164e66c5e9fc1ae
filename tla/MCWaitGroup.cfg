\* Three threads that add, wait, or finish what was added.
SPECIFICATION FairSpec
CONSTANTS
    Threads = {t1, t2, t3}
    NoThread = NoThread
    MaxAdded = 2
INVARIANTS
    StuckOnlyIfMissed
PROPERTIES
    TimedWaitEnds
CHECK_DEADLOCK FALSE
