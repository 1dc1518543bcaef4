SPECIFICATION Spec
CONSTANTS
    Uploads = {u1}
    PartNumbers = {1}
    Bodies = {c1}
    Paths = {p1, p2}
    Requests = {r1}
    Operations = {"complete"}
    Conditions = {"none"}
    Existing = {None}
    TTL = 1
    MaxRequests = 2
    MaxFaults = 0
    MaxCrashes = 0
    None = None
PROPERTIES
    ClaimsGetGrace
