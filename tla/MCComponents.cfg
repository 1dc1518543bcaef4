SPECIFICATION Spec
CONSTANTS
    UploadIDs = {1, 2}
    Callers = {c1, c2, c3}
    Locks = {l1, l2, l3}
    NoLock = NoLock
    Nobody = Nobody
    FileSize = 3
    MaxResponses = 2
    Servers = {s1, s2}
    MaxFailures = 2
    ObjectRows <- MCObjectRows
    UploadRows <- MCUploadRows
    PartRows <- MCPartRows
    ListPrefixes <- MCListPrefixes
    Delimiter = 2
    Limits = {0, 1, 3}
    MaxResults = 2
    MaxChanges = 2
    PartNumbers = {1, 2, 3}
    PartETags = {e1, e2}
    NotStored = NotStored
    MinPartSize = 1
    Users = {u1}
    None = None
    Skew = 1
    MaxAge = 3
    u1 = u1
INVARIANTS
    TypeOK
    OneRequestPerUpload
    TableIsTight
    SendsTheBytes
    PolicyStaysWithDownload
    OpenMeansMigrated
    ListsEachOnce
    ListsSteadyRows
    AuthenticationIsExact
    CompletionIsExact
PROPERTIES
    UploadIsGranted
    SendEnds
    ServersOpen
CHECK_DEADLOCK FALSE
