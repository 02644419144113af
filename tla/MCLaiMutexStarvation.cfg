\* Three threads that call Acquire once each, without deadlines, on a host that
\* wakes every sleeper.  On other hosts the threads may stop.
SPECIFICATION FairSpec
CONSTANTS
    t1 = t1
    t2 = t2
    t3 = t3
    Threads = {t1, t2, t3}
    NoThread = NoThread
    Rounds = 1
PROPERTY EveryContenderAcquires
CHECK_DEADLOCK FALSE
