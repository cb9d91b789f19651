SPECIFICATION Spec
CONSTANTS
    Requests = {r1, r2, r3}
    Keys = {k1, k2}
    Faults = {"store", "panic", "restart"}
SYMMETRY MCSymmetry
INVARIANTS NoConcurrentReplay ConfirmedOnce
