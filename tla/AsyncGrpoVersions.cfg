SPECIFICATION Spec
CONSTANTS
    NumPromptsPerStep = 1
    MaxTrajectoryAgeSteps = 1
    MaxTarget = 5
    StartStep = 1
    BatchesPerEpoch = 4
    MaxNumEpochs = 1
    InFlightWeightUpdates = TRUE
    Faults = {}
    MaxNumSteps = 4
    ValPeriod = 2
    ValAtStart = FALSE
    ValAtEnd = FALSE
    ValidationDrains = FALSE
    SavePeriod = 2
INVARIANTS
    TypeOK
    CollectorVersionLag
    GeneratedOnceFits
    LabelWithinAge
PROPERTIES
    TrainedWithinAge
