SPECIFICATION Spec
CONSTANTS
    b1 = b1
    b2 = b2
    k1 = k1
    k2 = k2
    p1 = p1
    p2 = p2
    p3 = p3
    p4 = p4
    c1 = c1
    c2 = c2
    r1 = r1
    r2 = r2
    r3 = r3
    None = None
    Buckets = {b1, b2}
    Keys = {k1}
    Paths = {p1, p2, p3}
    Bodies = {c1}
    Requests = {r1, r2}
    Conditions <- PlainOrCreate
    Operations = {"create", "put", "copy", "force", "drop"}
    Faults = FALSE
    MaxCrashes = 1
SYMMETRY Symm
INVARIANTS
    RowsHaveFiles
    RowsInBuckets
    NoLeak
