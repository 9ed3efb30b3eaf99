SPECIFICATION Spec
CONSTANTS
    Clients = {a, b}
    NoClient = nobody
    Targets = {t1}
    NoTarget = null
    Callbacks = {}
    NoAckers = {a, b}
    Retries = 0
    MaxLeak = 1
    MaxDrift = 0
INVARIANT NoUseAfterFree
