CONSTANTS
    Configurators = {x1}
    Clients = {t1}
    Sessions = {s1}
    Commands = {c1, c2}
    Nobody = Nobody
    MaxPending = 1
SPECIFICATION FairSpec
INVARIANTS TypeOK OneResultPerRequest NothingAfterRevocation PresenceIsCurrent
PROPERTIES RequestsAreAnswered RevokedIsCutOff
CHECK_DEADLOCK FALSE
