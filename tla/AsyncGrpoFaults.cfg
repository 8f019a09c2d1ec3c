SPECIFICATION FairSpec
CONSTANTS
    NumPromptsPerStep = 1
    MaxTrajectoryAgeSteps = 1
    MaxTarget = 3
    StartStep = 0
    BatchesPerEpoch = 1
    MaxNumEpochs = 2
    InFlightWeightUpdates = FALSE
    Faults = {"rollout", "loader", "launch", "drain_timeout", "refit", "validation", "wake_up", "must_save_by"}
    MaxNumSteps = 2
    ValPeriod = 1
    ValAtStart = TRUE
    ValAtEnd = FALSE
    ValidationDrains = TRUE
    SavePeriod = 2
INVARIANTS
    OnlyLaunchesLeak
    DrainedValidation
    CallsPairUp
PROPERTIES
    RunStops
    DrainReturns
