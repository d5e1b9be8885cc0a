\* Two logins on two nodes, grants over a slow network, tokens that are presented.
SPECIFICATION RPSpec
CONSTANTS
    TimeoutSeconds = 1
    DeadlineSeconds = 2
    ConnectSeconds = 1
    MaxBodyBytes = 1
    Client = "app"
    Resource = "resource"
    Service = "service"
    Parties = {"app", "agent"}
    Agents = {"agent"}
    RegisteredApps <- MCRegisteredApps
    Leeway = 2
    LogoutMaxAge = 2
    Absent = "absent"
    Nodes = {"behind", "ahead"}
    SkewOf <- MCSkewOf
    MostBehind = 1
    MostAhead = 2
    MaxLogins = 2
    PendingMaxAge = 5
    TicksPerSecond = 2
    IdTokens <- MCIdTokens
    Presented <- MCPresented
    TokenLife = 7
    MaxTime = 9
    BeginningsEnd = 1
INVARIANTS
    ExchangeBounded
    IdentityOfOwnLogin
    AgesUnderSkew
    KindsApart
    NoForbiddenForUnverified
PROPERTIES
    ExchangeEnds
