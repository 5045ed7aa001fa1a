SPECIFICATION Spec
CONSTANTS
    a = a
    b = b
    ea = ea
    eb = eb
    r1 = r1
    r2 = r2
    s1 = s1
    Users = {a, b}
    Emails = {ea, eb}
    NoEmail = NoEmail
    Admin = a
    Address <- MCAddress
    Subjects = {s1}
    Local = Local
    Requests = {r1, r2}
    NoRequest = NoRequest
    Configs <- MCConfigs
    NoProvider = NoProvider
    IdleTime = 1
    AbsoluteTime = 2
    TokenTime = 1
    Roles = {"admin", "viewer"}
    MaxSessions = 2
    MaxGen = 2
    MaxEnds = 1
    MaxClock = 1
SYMMETRY Interchangeable
CHECK_DEADLOCK FALSE
INVARIANTS TypeOK LastAdmin SessionsEnd SubjectKeepsUser
PROPERTY OwnTierKept
