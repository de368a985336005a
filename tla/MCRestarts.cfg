CONSTANTS
    d = d
    b = b
    f = f
    h1 = h1
    h2 = h2
    t1 = t1
    t2 = t2
    c1 = c1
    c2 = c2
    Path <- Nested
    Ancestors <- InD
    Hash = {h1}
    Time = {t1}
    NoHash = NoHash
    Absent = Absent
    NoConn = NoConn
    NoData = NoData
    Initial <- Full
    StartTree <- Full
    Kinds <- DirsAndFile
    Unacceptable = {}
    Conn = {c1}
    QueueSize = 2
    WindowSize = 2
    Persist = FALSE
    MaxEdits = 3
    MaxBreaks = 0
    MaxCrashes = 1
    MaxRestarts = 1
SPECIFICATION FairSpec
INVARIANTS BackedUp InSyncUnlessExcused RowsDescribeDisk
PROPERTY Settles
CHECK_DEADLOCK FALSE
