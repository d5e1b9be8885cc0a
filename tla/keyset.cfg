\* Two request threads, rotations, slow and failed fetches.
SPECIFICATION FairSpec
CONSTANTS
    Threads = {t1, t2}
    Kids = {k1}
    Unnamed = Unnamed
    NoKid = NoKid
    KeySetTtl = 3
    RefreshCooldown = 2
    MaxKeySetKeys = 2
    MaxClock = 3
    NoSet = NoSet
    NoThread = NoThread
    Never = Never
PROPERTIES
    FetchesBounded
    RetiredKeyRefused
    NewestSetKept
    RefreshLockFreed
