\* A count that is full at 3, which is also the value lai_event_wait() hands to
\* the host, and enough signals to overflow it.  A waiter that falls asleep at
\* that count and a panic are real stops.
SPECIFICATION FairSpec
CONSTANTS
    t1 = t1
    t2 = t2
    t3 = t3
    Threads = {t1, t2, t3}
    COUNT = 3
    Deadlines = TRUE
    MaxWaits = 2
    MaxSignals = 4
    MaxResets = 1
INVARIANTS
    TypeOK
    SignalsConserved
PROPERTIES
    ImplementsCounter
    SignalAndResetReturn
CHECK_DEADLOCK FALSE
