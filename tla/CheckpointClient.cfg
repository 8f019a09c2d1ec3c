SPECIFICATION Spec
CONSTANTS
    KeepTopK = 1
    KeepAll = FALSE
    UseMetric = TRUE
    HigherIsBetter = TRUE
    Steps = {1, 2, 3}
    Metrics = {1, 2}
    MaxSaves = 4
INVARIANTS
    TopKSurvive
    LatestSurvives
    NoMixedCheckpoint
