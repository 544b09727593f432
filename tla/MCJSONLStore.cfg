SPECIFICATION Spec
CONSTANTS
    Ids = {1, 2}
    Contents <- MCContents
    Inputs <- MCInputs
    NoRecord = NoRecord
    MaxLines = 3
INVARIANTS
    TypeOK
    NothingForgotten
    MirroredWhileClean
