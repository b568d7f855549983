SPECIFICATION PollSpec
CONSTANTS
    BlkSize = 4
    Lengths = {2}
    ResetSizes = {}
    MaxHeld = 2
    MaxFed = 200
INVARIANTS
    DrainFrees
CHECK_DEADLOCK FALSE
