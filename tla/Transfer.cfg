SPECIFICATION FairSpec
CONSTANTS
    MaxChunks = 3
    MaxRounds = 2
    Faults <- AllFaults
    Liberties = {"burst"}
INVARIANTS TypeOK GroupOutlivesTasks LostNeverRuns CopyAfterArrival OneInFlight ResultHonest
PROPERTIES SenderReturns ReceiverReturns
CHECK_DEADLOCK FALSE
