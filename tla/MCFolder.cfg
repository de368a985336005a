CONSTANTS
    d = d
    b = b
    f = f
    h1 = h1
    h2 = h2
    t1 = t1
    t2 = t2
    c1 = c1
    c2 = c2
    Path <- Deep
    Ancestors <- InDB
    Hash = {h1, h2}
    Time = {t1, t2}
    NoHash = NoHash
    Absent = Absent
    NoConn = NoConn
    NoData = NoData
    Initial <- Full
    StartTree <- Full
    Kinds <- DirsAndFile
    Unacceptable = {}
    Conn = {c1}
    QueueSize = 1
    WindowSize = 2
    Persist = TRUE
    MaxEdits = 3
    MaxBreaks = 0
    MaxCrashes = 0
    MaxRestarts = 0
SPECIFICATION Spec
INVARIANTS InSyncUnlessExcused RowsDescribeDisk TimesKept SessionKnowsDisk ServerKeepsRunning
CHECK_DEADLOCK FALSE
