SPECIFICATION FairSpec
CONSTANTS
    Clients = {a, b}
    NoClient = nobody
    Targets = {t1}
    NoTarget = null
    Callbacks = {a}
    NoAckers = {b}
    Retries = 0
    MaxLeak = 1
    MaxDrift = 0
PROPERTIES
    ClientsServed
    LostRecovers
