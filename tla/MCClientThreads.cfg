SPECIFICATION Spec
CONSTANTS
    Watcher = watcher
    Communicator = communicator
    Thread = {watcher, communicator}
    Nobody = nobody
    Value = {event}
    Size = 2
    WindowSize = 2
    MaxTries = 2
    Persist = FALSE
    IdleRounds = 2
    MaxFound = 3
CHECK_DEADLOCK FALSE
INVARIANTS
    TypeOK
    NoIdleSleeper
    SelectStillTrue
PROPERTIES
    ClientEnds
    GuardJoins
    GivesUp
