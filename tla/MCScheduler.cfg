SPECIFICATION FairSpec
CONSTANTS
    Inputs = 4
    Workers = {u, v, w}
INVARIANTS
    TypeOK
    ResultsAreComplete
    NoWorkerOutlivesTheCall
PROPERTIES
    ImplementsCall
    Returns
