SPECIFICATION Spec
CONSTANTS
    Peers = {p, q}
    NoPeer = nobody
    Broken = {p}
    NBlocks = 2
    Retransmits = 1
    MailboxSize = 1
    MaxStale = 1
INVARIANT AckedImageIsValid
