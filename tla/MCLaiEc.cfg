SPECIFICATION FairSpec
CONSTANTS
    ByteCount = 4
    Ack = 3
    NoEvent = 0
    Events = {1, 2}
    Widths = {1, 2}
    Values = {1, 2}
    MaxCalls = 3
INVARIANTS
    TypeOK
    ReadsReturnWhatWasStored
    QueriesExact
    BurstNeverRefused
PROPERTIES
    OnlyBurstEnableOverwrites
    CallsReturn
CHECK_DEADLOCK FALSE
