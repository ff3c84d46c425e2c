SPECIFICATION Spec
CONSTANTS
    Nodes = {n1, n2, n3, n4}
    Null = Null
    Reqs = {1, 2}
    MaxBatch = 3
    MaxTaskId = 4
SYMMETRY NodeSymmetry
INVARIANTS TypeOK EndsAgree NodesOwned
PROPERTY ImplementsQueue
