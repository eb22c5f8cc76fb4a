SPECIFICATION FairSpec
CONSTANTS
    Requests = {q1}
    MaxStreams = 1
    Window = 1
    Buffer = 1
    MaxBody = 3
    MaxAnswer = 2
CHECK_DEADLOCK FALSE
INVARIANTS
    TypeOK
    BodyIsReleased
    StreamedWithBackpressure
    NobodyWaitsInACircle
PROPERTIES
    RequestEnds
    AbandonedRequestStops
    ImplementsExchange
