SPECIFICATION Spec
CONSTANTS
    f1 = f1
    f2 = f2
    f3 = f3
    f4 = f4
    NoId = NoId
    Ids = {n1, n2, n3, n4}
    Fingerprints <- MCFingerprints
    Answers <- MCAnswers
    AnswerOf <- MCAnswerOf
    Statuses <- MCStatuses
    MaxDepth = 1
    MaxNodes = 3
SYMMETRY MCSymmetry
INVARIANTS
    TypeOK
    Acyclic
    DistinctFingerprints
    ConvergenceIsFlat
