\* Every entry and admission by nodes whose clocks differ, while time passes.
SPECIFICATION FairSpec
CONSTANTS
    LoginGroup <- MCLoginGroup
    AdminGroup <- MCAdminGroup
    RequiredGroup <- MCRequiredGroup
    EverySubject = EverySubject
    NoAdmins = NoAdmins
    NoCap = NoCap
    NoRow = NoRow
    NoSid = NoSid
    NoSubject = NoSubject
    NoRole = NoRole
    NoRequest = NoRequest
    NoWorker = NoWorker
    NoSnapshot = NoSnapshot
    Workers = {w1, w2}
    Subjects = {a}
    Sids = {s1}
    GroupSets <- EveryGroupSet
    MaxSessions = NoCap
    KeepsIdToken = TRUE
    RollsBack = TRUE
    Ops = {"callback", "admit", "token", "resource", "backchannel", "logout"}
    MaxSkew = 1
    MaxTime = 5
    IdleSeconds = 2
    AbsoluteMaxAgeSeconds = 4
    ExpiryTolerance = 2
INVARIANTS
    SkewTolerated
    RowsWithinCap
    AuditFollowsRole
PROPERTIES
    EntryLeft
