\* Sign-in, logout and admission over stores that apply each call.
SPECIFICATION Spec
CONSTANTS
    LoginGroup <- MCLoginGroup
    AdminGroup <- MCAdminGroup
    RequiredGroup <- MCRequiredGroup
    EverySubject = EverySubject
    NoAdmins = NoAdmins
    NoCap = NoCap
    NoRow = NoRow
    NoSid = NoSid
    NoSubject = NoSubject
    NoRole = NoRole
    NoRequest = NoRequest
    NoWorker = NoWorker
    NoSnapshot = NoSnapshot
    Workers = {w1, w2}
    Subjects = {a, b}
    Sids = {s1, s2, s3}
    GroupSets <- OneGroupSet
    MaxSessions = 2
    KeepsIdToken = TRUE
    RollsBack = FALSE
    Ops = {"callback", "backchannel", "logout", "admit"}
    MaxSkew = 0
    MaxTime = 0
    IdleSeconds = 1
    AbsoluteMaxAgeSeconds = 1
    ExpiryTolerance = 0
SYMMETRY Interchangeable
INVARIANTS
    SessionsWithinMax
    SessionsHaveAccounts
PROPERTIES
    EndedStaysEnded
    AdmittedWhileStored
    BackchannelEndsAll
