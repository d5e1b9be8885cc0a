SPECIFICATION FairSpec
CONSTANTS
    Apps <- MCApps
    MainApp = "main"
    ConfigOf <- MCConfigOf
    Policy <- MCPolicy
    Requests <- MCRequests
    Tokens <- MCTokens
    Claims <- MCClaims
    Sids <- MCSids
    SignedUnder <- MCSignedUnder
    SessionPerson <- MCSessionPerson
    Nothing = Nothing
    Addresses <- MCAddresses
    Garbage = Garbage
    Canonical <- MCCanonical
    Pool <- MCPool
    TrustedProxies = {"proxy"}
    MaxHops = 2
    Written <- MCWritten
    MaxSenders = 4
    BudgetNames <- MCBudgetNames
    BodyLimits <- MCBodyLimits
    Pieces = {1, 2}
    Paths <- MCPaths
    Methods <- MCMethods
    Auths <- MCAuths
    Cookies <- MCCookies
    Sites <- MCSites
    Rewrites <- MCRewrites
    TravellingRequests <- MCTravelling
    AnsweredRequests <- MCAnswered
INVARIANTS
    ClientPaysForItself
    RefusedBeforeLookup
    TokenBinding
    ForgeryIsNobody
    ReadersAgree
    HandlerIsVouchedFor
    ResponseGuarded
PROPERTIES
    OverLimitIsTold
    FailureEnds
