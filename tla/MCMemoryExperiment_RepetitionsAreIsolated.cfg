SPECIFICATION Spec
CONSTANTS
    Missing = Missing
    NoRecord = NoRecord
    Reveals <- MCReveals
    Schedule <- MCSchedule
    Category = category
    EvaluationID <- MCEvaluationID
    Exposure <- MCExposure
    Misleading <- MCMisleading
    SideOutcomes = {"SUPPORTED", "CONTRADICTED", "ERROR"}
    Writable = TRUE
    OnlineLearning = TRUE
    MinDistinctEpisodes = 2
    MaxStarts = 2
INVARIANT RepetitionsAreIsolated
