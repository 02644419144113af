SPECIFICATION Spec
CONSTANTS
    o1 = o1
    o2 = o2
    o3 = o3
    Objects <- MCObjects
    Names <- MCNames
    Contents <- MCContents
    MaxFrames = 2
    MaxOps = 2
    MaxLost = 1
    MaxSteps = 4
SYMMETRY MCSymmetry
INVARIANTS
    TypeOK
    RefCountsExact
    VariablesOwnTheirObjects
PROPERTIES
    IndicesBindToObjects
CHECK_DEADLOCK FALSE
