SPECIFICATION FairSpec
CONSTANTS
    Uploads = {u1}
    PartNumbers = {1}
    Bodies = {c1}
    Paths = {p1, p2}
    Requests = {r1, r2}
    Operations = {"part", "complete", "abort"}
    Conditions = {"none", "create", "match"}
    Existing = {None}
    TTL = 2
    MaxRequests = 3
    MaxFaults = 1
    MaxCrashes = 1
    None = None
PROPERTIES
    UploadsEnd
