SPECIFICATION FairSpec
CONSTANTS
    Threads = {t1, t2}
    Fields <- MCFields
    Field <- MCField
    Nobody = "none"
    Selector <- MCSelector
    Initially <- MCInitially
    ByteBits = 2
    WordBits = 8
    Widths = {2, 4, 8}
    AnyBits = 8
    MaxOperations = 2
INVARIANTS
    TypeOK
    ReadsReturnWhatWasStored
    NeighboursKept
    RegistersSelect
PROPERTIES
    OperationsEnd
CHECK_DEADLOCK FALSE
