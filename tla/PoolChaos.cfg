SPECIFICATION Spec
CONSTANTS
    NumWorkers = 2
    Callers = {c1, c2}
    Reqs = {1}
    SubmitOps = {"batch", "task"}
    MaxBatch = 1
    MaxTaskId = 2
    MaxNotify = 1
    Liberties = {"race", "reuse", "overlap", "early_wake", "cancel_race"}
    AllocFails = TRUE
    CreateFails = FALSE
SYMMETRY CallerSymmetry
INVARIANTS TypeOK TaskOnce QueueSizeExact BusyHidden RunsPaid
