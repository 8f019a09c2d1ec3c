SPECIFICATION Spec
CONSTANTS
    MaxSeqLen = 5
    MaxNewTokens = 2
    RolloutFaults = {"generation"}
    Configs <- StepConfigs
INVARIANTS
    SamplesAreOwn
    FitsContext
    LogprobsAreOwn
    EachTrainedOnce
    WithinTokenBudget
    ShardingNeverFails
    WorkersMeet
