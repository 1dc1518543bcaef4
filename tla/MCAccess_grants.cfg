SPECIFICATION Spec
CONSTANTS
    u0 = u0
    u1 = u1
    u2 = u2
    b1 = b1
    b2 = b2
    g1 = g1
    g2 = g2
    r1 = r1
    r2 = r2
    None = None
    Users = {u0, u1, u2}
    Buckets = {b1, b2}
    GrantIds = {g1, g2}
    Codes = {"c"}
    Keys <- MCKeys
    Prefixes <- MCPrefixes
    Actions = {"DeleteObject"}
    Batches = {{"DeleteObject"}}
    TTLs = {1}
    Sent <- SentCredentials
    Requests = {r1, r2}
    Operations = {"transfer", "patchGrant"}
    Seeds <- Installations
    MaxRequests = 2
    MaxClock = 0
    Skew = 0
    MaxAge = 2
PROPERTIES
    GrantsWrittenByOwner
CHECK_DEADLOCK FALSE
