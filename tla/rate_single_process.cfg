\* Two threads checking two keys, with sweeps.
SPECIFICATION Spec
CONSTANTS
    short = short
    long = long
    Keys <- MCKeys
    Limit <- MCLimit
    Window <- MCWindow
    Threads = {t1, t2}
    PruneInterval = 2
    MaxClock = 5
    NoEntry = NoEntry
    NoThread = NoThread
    NoKey = NoKey
PROPERTIES
    KeepsBudget
    SweepLeavesActive
