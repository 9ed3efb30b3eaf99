SPECIFICATION Spec
CONSTANTS
    Clients = {a, b}
    NoAckers = {b}
    NoClient = nobody
    Retries = 1
    MaxQueue = 1
INVARIANTS
    TypeOK
    OnlyOthersStrand
PROPERTIES
    InStep
    StepFlagIsCurrent
    HaltIsReported
    InterruptStops
