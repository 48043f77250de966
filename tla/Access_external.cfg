CONSTANTS
    Sessions = {s1}
    Requests = {q1, q2}
    Roles = {viewer, admin}
    Bearer = Bearer
    Nobody = Nobody
    MaxTokens = 3
SPECIFICATION Spec
INVARIANTS TypeOK RevokedForCause LogoutEndsLogin NewestTokenWins
PROPERTIES ImplementsRegister
SYMMETRY Symmetry
CHECK_DEADLOCK FALSE
