SPECIFICATION Spec
CONSTANTS
    f1 = f1
    f2 = f2
    f3 = f3
    f4 = f4
    NoWell = NoWell
    Wells = {w}
    Fingerprints <- MCFingerprints
    Answers <- MCAnswers
    AnswerOf <- MCAnswerOf
    Computed = {}
    InitialBranches = 1
    RetainBranches = 1
    MaxActiveBranches = 1
    MaxDepth = 1
    MaxNodes = 3
    GravityRecoveryBranches = 1
    MaxChallenges = 0
    MaxScore = 0
    Verifier = "branch"
    Contract <- Deterministic
    Traced = FALSE
INVARIANTS
    InconclusivePreserves
