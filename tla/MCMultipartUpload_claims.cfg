SPECIFICATION Spec
CONSTANTS
    Uploads = {u1}
    PartNumbers = {1, 2}
    Bodies = {c1, c2}
    Paths = {p1, p2, p3}
    Requests = {r1, r2}
    Operations = {"part", "copyPart", "complete", "abort", "drop"}
    Conditions = {"create", "match"}
    Existing <- PlainObjects
    TTL = 1
    MaxRequests = 3
    MaxFaults = 1
    MaxCrashes = 1
    None = None
SYMMETRY Symmetry
INVARIANTS
    TypeOK
    PartRowsHaveFiles
    ObjectHasFile
    ClaimsExclude
    NoLeak
PROPERTIES
    CommitsWhatWasNamed
    CommittedOnce
