SPECIFICATION Spec
CONSTANTS
    Conns = {1, 2}
    Tokens = {t1, t2}
    Bootstrap = {t2}
    Domains = {d1, d2}
    Revokers = {r1}
    Requests = {q1}
    NoConn = 0
    NoToken = NoToken
    Unnamed = Unnamed
    BadName = BadName
SYMMETRY NameSymmetry
INVARIANTS
    TypeOK
    SessionsOwned
    WelcomeIsKept
    NoOrphanedTunnel
    RoutedToOwner
    RevocationCloses
PROPERTIES
    VacatedByItsHandler
    ImplementsService
