SPECIFICATION Spec
CONSTANTS
    NumPromptsPerStep = 1
    MaxTrajectoryAgeSteps = 1
    MaxTarget = 3
    StartStep = 0
    BatchesPerEpoch = 4
    MaxNumEpochs = 1
    InFlightWeightUpdates = FALSE
    Faults = {}
    MaxNumSteps = 2
    ValPeriod = 0
    ValAtStart = FALSE
    ValAtEnd = FALSE
    ValidationDrains = TRUE
    SavePeriod = 0
INVARIANTS
    DrainedRefit
