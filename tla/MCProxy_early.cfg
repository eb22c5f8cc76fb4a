SPECIFICATION ServedSpec
CONSTANTS
    Requests = {q1}
    MaxStreams = 1
    Window = 1
    Buffer = 1
    MaxBody = 2
    MaxAnswer = 1
CHECK_DEADLOCK FALSE
PROPERTY EarlyAnswerArrives
