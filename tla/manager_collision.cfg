SPECIFICATION Spec
CONSTANTS
    Sids = {3, 5, 7}
    MAXSOCKET = 4
    MaxMade = 3
INVARIANTS
    HeldIsFound
CHECK_DEADLOCK FALSE
