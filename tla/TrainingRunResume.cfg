SPECIFICATION FairSpec
CONSTANTS
    KeepTopK = 1
    KeepAll = FALSE
    UseMetric = TRUE
    HigherIsBetter = FALSE
    Configs <- ResumeConfigs
    BatchesPerEpoch = 2
    MaxNumEpochs = 3
    NumPromptsPerStep = 2
    PromptsPerBatch = 2
    MaxGenBatches = 2
    MaxRestarts = 2
INVARIANTS
    TrainedInOrder
    CountersAgree
    LatestIsWhole
    LossBounded
    EndIsSaved
PROPERTIES
    SavesAreAtomic
    Ends
