SPECIFICATION SystemSpec
CONSTANTS
    Conns = {1, 2, 3}
    Clients = {k1}
    Flags <- MachineFlags
    SaveFails = FALSE
    Tokens = {t1, t2}
    Bootstrap = {t1, t2}
    Domains = {d1, d2}
    Revokers = {}
    Requests = {}
    NoConn = 0
    NoToken = NoToken
    Unnamed = Unnamed
    BadName = BadName
    Nothing = Nothing
    t1 = t1
    t2 = t2
    d1 = d1
    d2 = d2
CONSTRAINT ThirdAfterTwoWelcomes
INVARIANTS
    AskedNameWasGranted
    ShownUrlIsServed
PROPERTY NameIsStable
