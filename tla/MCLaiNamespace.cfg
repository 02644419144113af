SPECIFICATION Spec
CONSTANTS
    Names <- MCNames
    Hash <- MCHash
    Predefined <- MCPredefined
    Terms <- MCTerms
    STA = "INI"
    INI = "INI"
    Asked = {"INI"}
    MaxNodes = 6
    MaxCalls = 3
INVARIANTS
    TypeOK
    TablesOK
    LookupsFind
    ArrayCoversTables
    UninstallFinds
    AliasesAreFlat
PROPERTIES
    ImplementsTree
    CallRestoresNamespace
    EveryChildOnce
CHECK_DEADLOCK FALSE
