SPECIFICATION Spec
CONSTANTS
    ChunkSize = 3
    IdRange = 3
    SizeRange = 4
    KeyRange = 3
    Addresses = {0, 50}
    Lengths <- SomeLengths
INVARIANTS Tiles WordsDecode LastMarked
