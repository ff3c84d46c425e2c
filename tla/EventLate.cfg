SPECIFICATION Spec
CONSTANTS
    MaxChunks = 2
    MaxRounds = 1
    Faults <- NoFaults
    Liberties = {}
INVARIANT EventRecorded
CHECK_DEADLOCK FALSE
