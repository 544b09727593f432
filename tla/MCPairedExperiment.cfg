SPECIFICATION FairSpec
CONSTANTS
    c1 = c1
    c2 = c2
    Schedule <- MCSchedule
    Retries = 1
    MaxBANCalls <- MCMaxBANCalls
    MaxStarts = 2
INVARIANTS
    TypeOK
    InterruptedNotRecorded
    ArtifactsFollowSummary
    SidesAgreeWithCalls
PROPERTIES
    ImplementsLedger
    RunReturns
