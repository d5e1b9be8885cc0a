\* Two starts that overlap.
SPECIFICATION Spec
CONSTANTS
    NoLogin = NoLogin
    Logins = {l1, l2, l3}
    Slots = {q1, q2}
    MaxPending = 2
    MaxAge = 1
    MaxTime = 0
SYMMETRY Interchangeable
INVARIANTS
    AtMostMaxPending
