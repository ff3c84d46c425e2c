SPECIFICATION FairSpec
CONSTANTS
    NumWorkers = 2
    Callers = {c1, c2, c3}
    Reqs = {1}
    SubmitOps = {"batch", "task"}
    MaxBatch = 3
    MaxTaskId = 3
    MaxNotify = 3
    Liberties = {"race", "burst", "extra_wake", "early_wake", "cancel_race"}
    AllocFails = FALSE
    CreateFails = TRUE
INVARIANTS CountExact NoStaleWrite NoIdleContext BatchCbOnce InOrder
PROPERTIES ImplementsService CancelSettles CallsReturn WakeConsumed DestroyReturns
