SPECIFICATION Spec
CONSTANTS
    n1 = n1
    n2 = n2
    n3 = n3
    g1 = g1
    g2 = g2
    a = a
    b = b
    x = x
    y = y
    Names = {n1, n2, n3}
    Contents = {x, y}
    Groups = {g1, g2}
    Missing = Missing
    NoRecord = NoRecord
    Strategies <- MCOrder
    MinDistinctEpisodes = 2
    Seeds <- MCSeeds
    Experiences <- MCExperiences
    Edits <- MCEdits
    Measured <- MCMeasured
    MaxRecords = 5
    MaxResults = 2
SYMMETRY MCSymmetry
INVARIANTS
    StatusFollowsEvidence
    SupersessionLeadsOn
    PatternsHaveDistinctSupport
