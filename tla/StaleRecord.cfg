SPECIFICATION Spec
CONSTANTS
    MaxChunks = 2
    MaxRounds = 2
    Faults <- NoFaults
    Liberties = {"late_records"}
INVARIANT FirstChunkFirst
CHECK_DEADLOCK FALSE
