SPECIFICATION FairSpec
CONSTANTS
    u1 = u1
    u2 = u2
    a1 = a1
    a2 = a2
    p1 = p1
    d1 = d1
    d2 = d2
    c1 = c1
    v1 = v1
    vin = vin
    e1 = e1
    e2 = e2
    l1 = l1
    n1 = n1
    w1 = w1
    k1 = k1
    Users = {u1, u2}
    Emails = {a1, a2}
    Passwords = {p1, p2, p3}
    Requests = {r1, r2}
    MaxRequests = 2
    Dealerships = {d1, d2}
    Codes = {d1, d2, code}
    Customers = {c1, c2}
    VehicleIDs = {v1, v2}
    Contacts = {k1, k2}
    VINs = {vin}
    Entities = {e1, e2}
    Names = {n1, n2}
    LinkIDs = {l1, l2}
    Values = {w1, w2}
    SlotIDs = {x1, x2}
    Days = {1}
    Midnight = 2
    Starts <- MCOneUser
    Null = Null
INVARIANT RevokedStayRevoked
CHECK_DEADLOCK FALSE
