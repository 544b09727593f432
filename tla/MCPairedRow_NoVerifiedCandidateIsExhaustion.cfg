SPECIFICATION RowSpec
CONSTANTS
    f1 = f1
    f2 = f2
    f3 = f3
    f4 = f4
    NoWell = NoWell
    Wells = {w}
    Fingerprints <- MCFingerprints
    Answers <- MCAnswers
    AnswerOf <- MCAnswerOf
    Computed = {f4}
    InitialBranches = 2
    RetainBranches = 2
    MaxActiveBranches = 2
    MaxDepth = 1
    MaxNodes = 4
    GravityRecoveryBranches = 1
    MaxChallenges = 0
    MaxScore = 0
    Verifier = "branch"
    Contract <- Deterministic
    Traced = FALSE
INVARIANTS
    NoVerifiedCandidateIsExhaustion
