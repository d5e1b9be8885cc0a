\* Overlapping starts and callbacks of one browser.
SPECIFICATION Spec
CONSTANTS
    NoLogin = NoLogin
    Logins = {l1, l2, l3, l4}
    Slots = {q1, q2}
    MaxPending = 2
    MaxAge = 1
    MaxTime = 2
SYMMETRY Interchangeable
\* A browser may stop.
CHECK_DEADLOCK FALSE
INVARIANTS
    JarBounded
    LatestLoginsKept
    DeliveredNotHeld
