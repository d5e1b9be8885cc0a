\* Checks, expiries, outages, lost answers and a clock set back, of one Redis.
SPECIFICATION Spec
CONSTANTS
    short = short
    long = long
    NoKey = NoKey
    Keys <- MCKeys
    Limit <- MCLimit
    Window <- MCWindow
    MaxClock = 6
    MaxSetBack = 2
PROPERTIES
    KeepsBudget
