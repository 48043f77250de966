CONSTANTS
    Facets = {f1, f2}
    Docs = {d1}
    Identities = {a, b}
    Requests = {r1, r2}
    None = None
    MaxRevision = 3
    MaxDocRevision = 4
SPECIFICATION Spec
INVARIANT NoOrphans
PROPERTIES DocumentsStayPut
SYMMETRY Symmetry
