SPECIFICATION Spec
CONSTANTS
    Accounts = {a1, a2}
    Names = {n1, n2}
    Roles = {admin, manager}
    Tokens = {t1, t2}
    Resets = {r1, r2}
    Logins = {l1}
    Changes = {c1}
    Patches = {p1}
    NoRole = NoRole
    NoToken = NoToken
    NoAccount = NoAccount
    NoName = NoName
    Gone = Gone
    ResetTTL = 1
    SessionTTL = 1
    MaxTime = 2
    MaxRequests = 4
    MaxFaults = 1
INVARIANTS
    TypeOK
    SpentTokensAreDead
    OnlyResetsKillTheLastLink
    MailedLinksWereStored
    NewestPasswordStays
    StaleSessionsEnd
SYMMETRY Symmetry
CHECK_DEADLOCK FALSE
