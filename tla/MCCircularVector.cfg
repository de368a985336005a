CONSTANTS
    Value = {a, b, c}
    Blank = Blank
    Size = 3
SPECIFICATION Spec
INVARIANTS NoBlankInside WalkVisitsContents
PROPERTY ImplementsFifo
