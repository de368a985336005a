SPECIFICATION Spec
CONSTANTS
    Acceptor = acceptor
    Thread = {acceptor, t1, t2}
    Nobody = nobody
    Waker = waker
    Value = {c1, c2, c3, waker}
    Size = 2
    Backlog = 1
    IdleRounds = 2
CHECK_DEADLOCK FALSE
INVARIANTS
    EachConnectionOnce
    WakerIsNoClient
PROPERTIES
    EachGetsItsTurn
    ServerEnds
