SPECIFICATION Spec
CONSTANTS
    NumWorkers = 1
    Callers = {c1}
    Reqs = {1}
    SubmitOps = {"batch"}
    MaxBatch = 1
    MaxTaskId = 1
    MaxNotify = 2
    Liberties = {"extra_wake"}
    AllocFails = FALSE
    CreateFails = FALSE
INVARIANT NoUseAfterFree
