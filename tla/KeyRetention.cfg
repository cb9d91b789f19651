SPECIFICATION Spec
CONSTANTS
    Requests = {r1}
    Keys = {k1}
    Faults = {}
INVARIANTS RetainedAfterSuccess
