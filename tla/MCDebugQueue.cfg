SPECIFICATION FairSpec
CONSTANTS
    Size = 4
    IdxMod = 4
    LineMax = 3
INVARIANTS
    TypeOK
    NoLostWakeup
PROPERTIES
    ImplementsLogQueue
    LineDelivered
