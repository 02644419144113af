SPECIFICATION Spec
CONSTANTS
    SmallSizes <- Sizes
    Kinds <- CallKinds
    OpArgs <- MCOpArgs
    NodeArgs <- MCNodeArgs
    ArgCounts = {1}
    CodeSizes = {0, 5}
    MaxStack = 4
INVARIANT
    ImplicitReturnWorks
