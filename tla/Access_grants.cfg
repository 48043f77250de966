CONSTANTS
    w1 = w1
    Users = {u1, u2}
    Legacy = {u2}
    Listed <- OneWorkspace
    Platform = Platform
    Roles = {"viewer", "admin"}
    Requests = {r1, r2}
    Nobody = Nobody
SPECIFICATION Spec
INVARIANTS TypeOK OneBootstrapAdmin GrantsHaveMembers
PROPERTIES LastAdminStays
SYMMETRY Symmetry
