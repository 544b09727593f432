SPECIFICATION Spec
CONSTANTS
    f1 = f1
    f2 = f2
    f3 = f3
    f4 = f4
    NoWell = NoWell
    Wells = {}
    Fingerprints <- MCFingerprints
    Answers <- MCAnswers
    AnswerOf <- MCAnswerOf
    Computed = {}
    InitialBranches = 3
    RetainBranches = 1
    MaxActiveBranches = 2
    MaxDepth = 1
    MaxNodes = 5
    GravityRecoveryBranches = 0
    MaxChallenges = 0
    MaxScore = 0
    Verifier = "branch"
    Contract <- Deterministic
    Traced = FALSE
INVARIANTS
    DistinctProposalsStored
