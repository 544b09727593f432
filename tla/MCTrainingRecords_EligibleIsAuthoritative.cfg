SPECIFICATION Spec
CONSTANTS
    r1 = r1
    r2 = r2
    p1 = p1
    p2 = p2
    Runs <- MCRuns
    Problems <- MCProblems
    Thoughts = {"t1", "t2"}
    Traces <- MCTraces
    Threshold = 2
    MaxTurns = 2
    MaxPaths = 2
    MaxCommands = 2
CHECK_DEADLOCK FALSE
INVARIANTS
    EligibleIsAuthoritative
