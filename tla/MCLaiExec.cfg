\* Arrays for three items, methods of five opcodes, and a stack that holds a
\* Return or a Break in an If in a While, or three nested calls.
SPECIFICATION FairSpec
CONSTANTS
    SmallSizes <- Sizes
    Kinds <- PlainKinds
    OpArgs <- MCOpArgs
    NodeArgs <- MCNodeArgs
    ArgCounts = {1}
    CodeSizes = {0, 5}
    MaxStack = 4
INVARIANTS
    TypeOK
    StacksAligned
    BlocksNest
    NoEnsureFires
PROPERTIES
    CallsReturnBalanced
    EndlessOnlyByWhile
