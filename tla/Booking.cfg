SPECIFICATION Spec
CONSTANTS
    Technicians = {t1, t2}
    Bays = {b1, b2}
    ServiceTypes = {k1}
    Vehicles = {v1}
    Skills = {s1}
    Capabilities = {c1}
    AppointmentIDs = {a1, a2}
    TimeOffIDs = {}
    BookingRequests = {r1, r2}
    TransitionRequests = {q1}
    TimeOffRequests = {}
    AdminRequests = {}
    InitialCatalog <- MCCatalog
    Horizon = 2
    MaxTries = 1
    MaxEdits = 0
    Null = Null
SYMMETRY MCSymmetry
INVARIANTS NoDoubleBooking ReservationsMatch CompletionWithinPlan
PROPERTIES RefinesLedger
