SPECIFICATION FairSpec
CONSTANTS
    Clients = {"a", "b"}
    Fds = {3, 4, 5}
    MaxConns = 5
INVARIANTS
    TypeOK
    OneOwner
    TablesAgree
    CurrentIsOpen
PROPERTIES
    ServerEndStays
    PendingIsAccepted
CHECK_DEADLOCK FALSE
