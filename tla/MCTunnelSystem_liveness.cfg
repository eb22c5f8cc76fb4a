SPECIFICATION FairSystemSpec
CONSTANTS
    Conns = {1, 2}
    Clients = {k1}
    Flags <- AutomaticFlags
    SaveFails = TRUE
    Tokens = {t1}
    Bootstrap = {t1}
    Domains = {d1}
    Revokers = {}
    Requests = {}
    NoConn = 0
    NoToken = NoToken
    Unnamed = Unnamed
    BadName = BadName
    Nothing = Nothing
    t1 = t1
    t2 = t2
    d1 = d1
    d2 = d2
PROPERTIES
    NoAttachmentToTheUnregistered
    GoneClientExpires
    DeadSessionLeaves
    HandshakeEnds
