SPECIFICATION Spec
CONSTANTS
    Procs = {p1, p2, p3}
    Keys = {k1}
    Domains = {d1, d2}
    NoName = NoName
    Absent = Absent
    Torn = Torn
    Legacy <- OldName
    d1 = d1
VIEW NamesInUse
SYMMETRY CallSymmetry
INVARIANTS
    TypeOK
    NeverTorn
PROPERTY ImplementsSavedName
