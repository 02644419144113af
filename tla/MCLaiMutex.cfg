\* Three threads, of which any subset uses the Mutex, twice each, with and
\* without deadlines; a wake rouses every sleeper, or any non-empty set of them.
\* On a host that may wake one of two sleepers the other can sleep for good, so
\* the threads may stop.
SPECIFICATION FairSpec
CONSTANTS
    t1 = t1
    t2 = t2
    t3 = t3
    Threads = {t1, t2, t3}
    NoThread = NoThread
    Rounds = 2
INVARIANTS
    TypeOK
    MutualExclusion
    WordIsHonest
    NoForgottenSleeper
PROPERTIES
    ImplementsLock
    TwoContendersAcquire
CHECK_DEADLOCK FALSE
