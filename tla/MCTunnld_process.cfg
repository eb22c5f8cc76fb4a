SPECIFICATION FairSpec
CONSTANTS
    HTTP = {http, https}
    Requests = {q1}
    Calls = {1, 2}
    Limit = 2
    Width = 16
INVARIANTS
    TypeOK
    EverythingReleased
    RequestsDrained
    HistoryIsTheWindow
    NoSampleWraps
PROPERTY RelayEnds
CHECK_DEADLOCK FALSE
