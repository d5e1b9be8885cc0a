\* Every entry and admission over a transaction that rolls back: each one step.
SPECIFICATION Spec
CONSTANTS
    LoginGroup <- MCLoginGroup
    AdminGroup <- MCAdminGroup
    RequiredGroup <- MCRequiredGroup
    EverySubject = EverySubject
    NoAdmins = NoAdmins
    NoCap = NoCap
    NoRow = NoRow
    NoSid = NoSid
    NoSubject = NoSubject
    NoRole = NoRole
    NoRequest = NoRequest
    NoWorker = NoWorker
    NoSnapshot = NoSnapshot
    Workers = {w1, w2}
    Subjects = {a, b}
    Sids = {s1, s2}
    GroupSets <- EveryGroupSet
    MaxSessions = 1
    KeepsIdToken = TRUE
    RollsBack = TRUE
    Ops = {"callback", "admit", "token", "resource", "backchannel", "logout"}
    MaxSkew = 0
    MaxTime = 1
    IdleSeconds = 1
    AbsoluteMaxAgeSeconds = 2
    ExpiryTolerance = 0
SYMMETRY Interchangeable
INVARIANTS
    TypeOK
PROPERTIES
    LedgerSpec
    CookieNamesDurableSession
    LogoutKeepsHint
