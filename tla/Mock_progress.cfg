CONSTANTS
    s1 = s1
    s2 = s2
    s3 = s3
    o1 = o1
    o2 = o2
    o3 = o3
    Creates = {s1, s2}
    Clients = {k1}
    Owners = {o1}
    Owner <- OneOwner
    Actor <- OneActor
    Nothing = Nothing
    MaxSessions = 2
    MaxPerOwner = 2
SPECIFICATION FairSpec
INVARIANTS CloseLeavesNothing NothingIsForgotten
PROPERTIES ExpiredIsReaped StreamsEnd CloseDrains
CHECK_DEADLOCK FALSE
