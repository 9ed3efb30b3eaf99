SPECIFICATION FairSpec
CONSTANTS
    Peers = {p, q}
    NoPeer = nobody
    Broken = {}
    NBlocks = 3
    Retransmits = 1
    MailboxSize = 2
    MaxStale = 1
INVARIANTS
    TypeOK
    SlotIsPrefix
PROPERTIES
    ImplementsFirmwareUpdate
    SilenceEnds
