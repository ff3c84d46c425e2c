SPECIFICATION FairSpec
CONSTANTS
    NumWorkers = 2
    Callers = {c1, c2, c3}
    Reqs = {1, 2}
    SubmitOps = {"batch"}
    MaxBatch = 2
    MaxTaskId = 4
    MaxNotify = 2
    Liberties = {"early_wake"}
    AllocFails = FALSE
    CreateFails = FALSE
INVARIANTS NoUseAfterFree ExclusiveWorker
PROPERTIES NotifiedRuns ImplementsService
