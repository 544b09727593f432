SPECIFICATION RowFairSpec
CONSTANTS
    f1 = f1
    f2 = f2
    f3 = f3
    f4 = f4
    NoWell = NoWell
    Wells = {w}
    Fingerprints <- MCFewFingerprints
    Answers <- MCAnswers
    AnswerOf <- MCFewAnswerOf
    Computed = {}
    InitialBranches = 4
    RetainBranches = 1
    MaxActiveBranches = 1
    MaxDepth = 1
    MaxNodes = 3
    GravityRecoveryBranches = 1
    MaxChallenges = 0
    MaxScore = 1
    Verifier = "branch"
    Contract <- Deterministic
    Traced = TRUE
INVARIANTS
    TypeOK
    AnsweredRecoveries
PROPERTIES
    ImplementsGraph
    Terminates
