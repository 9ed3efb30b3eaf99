SPECIFICATION Spec
CONSTANTS
    Clients = {a, b}
    NoClient = nobody
    Targets = {t1, t2}
    NoTarget = null
    Callbacks = {a}
    NoAckers = {a}
    Retries = 1
    MaxLeak = 1
    MaxDrift = 0
INVARIANTS
    TypeOK
    TargetsGuarded
    WaitersLetGo
    NoDanglingTarget
    NoAckUseIsSafe
PROPERTIES
    ImplementsTargetList
SYMMETRY Symmetry
