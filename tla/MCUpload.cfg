CONSTANTS
    b1 = b1
    b2 = b2
    None = None
    Block = {b1, b2}
    Version <- MCVersion
    Window = 2
    ChunkSizes = {1, 3}
    Record = 2
    UpRoom = 1
    DownRoom = 4
SPECIFICATION Spec
CHECK_DEADLOCK FALSE
INVARIANTS
    TypeOK
    StreamsFramed
    NoCrossedWrites
    CopyIsAVersion
    NoTempLeft
PROPERTIES
    Uploaded
