SPECIFICATION Spec
CONSTANTS
    SmallSizes <- TightSizes
    Kinds <- BankFieldKinds
    OpArgs <- MCOpArgs
    NodeArgs <- MCNodeArgs
    ArgCounts = {0, 1}
    CodeSizes = {0, 5}
    MaxStack = 4
INVARIANT
    NoEnsureFires
