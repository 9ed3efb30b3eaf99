SPECIFICATION FairSpec
CONSTANTS
    Tasks = {a, b}
    NoTask = none
    MaxDepth = 2
    MaxCount = 3
INVARIANTS
    TypeOK
    MutualExclusion
    OneWriter
    CountCoversScopes
PROPERTIES
    ImplementsMonitor
    LockServed
