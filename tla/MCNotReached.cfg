SPECIFICATION Spec
CONSTANTS
    Blocks = {b1, b2}
    Handles = {t1, t2, t3}
    NoHandle = null
INVARIANTS
    NotReached
