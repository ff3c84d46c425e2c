SPECIFICATION FairSpec
CONSTANTS
    MaxChunks = 2
    MaxRounds = 1
    Faults <- NoFaults
    Liberties = {"burst"}
PROPERTY WaitReturns
CHECK_DEADLOCK FALSE
