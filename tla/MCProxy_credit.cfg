SPECIFICATION Spec
CONSTANTS
    Requests = {q1, q2}
    MaxStreams = 1
    Window = 1
    Buffer = 1
    MaxBody = 1
    MaxAnswer = 1
CHECK_DEADLOCK FALSE
SYMMETRY RequestSymmetry
PROPERTY RefusedOnlyWhileBusy
