CONSTANTS
    s1 = s1
    s2 = s2
    s3 = s3
    o1 = o1
    o2 = o2
    o3 = o3
    Creates = {s1, s2, s3}
    Clients = {}
    Owners = {o1, o2, o3}
    Owner <- MCOwner
    Actor <- MCActor
    Nothing = Nothing
    MaxSessions = 2
    MaxPerOwner = 1
SPECIFICATION Spec
INVARIANTS AdmissionHolds ReservationsAreExact
CHECK_DEADLOCK FALSE
