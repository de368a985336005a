CONSTANTS
    d = d
    e = e
    f = f
    m1 = m1
    m2 = m2
    h1 = h1
    h2 = h2
    t1 = t1
    t2 = t2
    p1 = p1
    p2 = p2
    Path = {d, e, f}
    Ancestors <- Chain
    Hash = {h1, h2}
    Time = {t1, t2}
    NoHash = NoHash
    Absent = Absent
    Mac = {m1, m2}
    Password = {p1, p2}
    NoPassword = NoPassword
    CommandLines <- MCCommandLines
    ServerData <- MCServerData
    MaxStarts = 2
    MaxCrashes = 1
    Now = t2
    SizeOf <- Sizes
    Width = 2
    Busy = m1
    MaxEdits = 1
    Destinations <- MCDestinations
    NoRow = NoRow
    NoSession = NoSession
SPECIFICATION Spec
CHECK_DEADLOCK FALSE
INVARIANTS
    TypeOK
    NoUserNoData
    RetrievedIsBackup
    FailsOnlyForCause
    ForgetsStaleRows
PROPERTIES
    RetrievalEnds
