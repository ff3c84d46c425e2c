SPECIFICATION Spec
CONSTANTS
    Events = {1, 2}
    NoEvent = NoEvent
    InitCap = 1
    MaxSize = 5
INVARIANT RingOK
PROPERTY ImplementsFifo
