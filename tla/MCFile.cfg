CONSTANTS
    d = d
    b = b
    f = f
    h1 = h1
    h2 = h2
    t1 = t1
    t2 = t2
    c1 = c1
    c2 = c2
    Path <- Alone
    Ancestors <- NoAncestors
    Hash = {h1, h2}
    Time = {t1}
    NoHash = NoHash
    Absent = Absent
    NoConn = NoConn
    NoData = NoData
    Initial <- Empty
    StartTree <- Empty
    Kinds <- Files
    Unacceptable = {}
    Conn = {c1}
    QueueSize = 2
    WindowSize = 2
    Persist = TRUE
    MaxEdits = 3
    MaxBreaks = 1
    MaxCrashes = 0
    MaxRestarts = 1
SPECIFICATION FairSpec
INVARIANTS TypeOK NoReplyWithoutEvent RepliesInOrder InSyncUnlessExcused
PROPERTY Settles
CHECK_DEADLOCK FALSE
