\* A kid the last refresh fetched, rejected as unknown.
SPECIFICATION Spec
CONSTANTS
    Threads = {t1, t2}
    Kids = {k1, k2}
    Unnamed = Unnamed
    NoKid = NoKid
    KeySetTtl = 2
    RefreshCooldown = 1
    MaxKeySetKeys = 2
    MaxClock = 2
    NoSet = NoSet
    NoThread = NoThread
    Never = Never
SYMMETRY Interchangeable
PROPERTIES
    UnknownMeansAbsent
