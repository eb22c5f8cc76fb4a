SPECIFICATION Spec
CONSTANTS
    Calls = {c1, c2}
    Ids = {i1, i2}
    Targets = {v4}
    Manual = Manual
    Elsewhere = Elsewhere
    v4 = v4
    w4 = w4
    v6 = v6
    TypeOf <- TypeOfTarget
PROPERTY OthersRecordsKept
