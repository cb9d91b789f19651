SPECIFICATION FairSpec
CONSTANTS
    Technicians = {t1}
    Bays = {b1}
    ServiceTypes = {k1}
    Vehicles = {v1}
    Skills = {s1}
    Capabilities = {c1}
    AppointmentIDs = {a1}
    TimeOffIDs = {}
    BookingRequests = {r1}
    TransitionRequests = {q1, q2}
    TimeOffRequests = {}
    AdminRequests = {}
    InitialCatalog <- MCCatalog
    Horizon = 1
    MaxTries = 2
    MaxEdits = 0
    Null = Null
INVARIANTS AuditTrail CompletionWithinPlan
PROPERTIES RefinesLedger TransitionAnswered
