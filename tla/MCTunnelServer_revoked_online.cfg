SPECIFICATION Spec
CONSTANTS
    Conns = {1}
    Tokens = {t1}
    Bootstrap = {}
    Domains = {d1}
    Revokers = {r1}
    Requests = {}
    NoConn = 0
    NoToken = NoToken
    Unnamed = Unnamed
    BadName = BadName
INVARIANT RevokedTokenOffline
