SPECIFICATION Spec
CONSTANTS
    Technicians = {t1}
    Bays = {b1}
    ServiceTypes = {k1}
    Vehicles = {v1}
    Skills = {s1}
    Capabilities = {c1}
    AppointmentIDs = {a1}
    TimeOffIDs = {}
    BookingRequests = {r1}
    TransitionRequests = {}
    TimeOffRequests = {}
    AdminRequests = {d1}
    InitialCatalog <- MCCatalog
    Horizon = 2
    MaxTries = 1
    MaxEdits = 1
    Null = Null
INVARIANTS WithdrawnUnused
