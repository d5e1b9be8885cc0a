\* Two calls of one session, an issuer that may rotate and revoke on use.
SPECIFICATION Spec
CONSTANTS
    NoRow = NoRow
    NoSid = NoSid
    NoToken = NoToken
    Callers = {c1, c2}
    Sids = {s1}
    Tokens = {r1, r2, r3}
    MaxTime = 2
    IdleSeconds = 1
    AbsoluteMaxAgeSeconds = 2
    ExpiryTolerance = 0
SYMMETRY Interchangeable
INVARIANTS
    StoredTokenHonoured
PROPERTIES
    HandedOutWhileStanding
