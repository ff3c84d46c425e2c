SPECIFICATION Spec
CONSTANTS
    NumWorkers = 2
    Callers = {c1, c2, c3}
    Reqs = {1}
    SubmitOps = {"batch"}
    MaxBatch = 2
    MaxTaskId = 4
    MaxNotify = 3
    Liberties = {"reuse", "burst", "extra_wake"}
    AllocFails = FALSE
    CreateFails = FALSE
SYMMETRY CallerSymmetry
INVARIANTS CountExact NoStranded NoStaleWrite
PROPERTY ImplementsService
