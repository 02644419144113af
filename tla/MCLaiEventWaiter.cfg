\* One Wait and one Signal: the smallest case in which a waiter must be unblocked.
SPECIFICATION FairSpec
CONSTANTS
    t1 = t1
    t2 = t2
    t3 = t3
    Threads = {t1, t2}
    COUNT = 3
    Deadlines = FALSE
    MaxWaits = 1
    MaxSignals = 1
    MaxResets = 0
PROPERTY SignalledWaitReturns
CHECK_DEADLOCK FALSE
