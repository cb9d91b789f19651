SPECIFICATION Spec
CONSTANTS
    Technicians = {t1}
    Bays = {b1}
    ServiceTypes = {k1}
    Vehicles = {v1}
    Skills = {s1}
    Capabilities = {c1}
    AppointmentIDs = {a1}
    TimeOffIDs = {o1}
    BookingRequests = {r1}
    TransitionRequests = {}
    TimeOffRequests = {p1}
    AdminRequests = {}
    InitialCatalog <- MCCatalog
    Horizon = 2
    MaxTries = 1
    MaxEdits = 0
    Null = Null
INVARIANTS NoAppointmentDuringTimeOff
