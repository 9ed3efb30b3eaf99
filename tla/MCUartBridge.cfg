SPECIFICATION Spec
CONSTANTS
    Fds = {f1, f2}
    NoFd = none
    BadFd = bad
    Hosts = {h}
    NoHost = nohost
INVARIANTS
    TypeOK
    SockIsOurs
    OrphansWereReplaced
PROPERTIES
    LiveClientKept
    ClientAttended
