SPECIFICATION Spec
CONSTANTS
    BlockSize = 3
    PairStride = 5
    Configs <- DiffusionConfigs
INVARIANTS
    ReplaysGeneration
    SameMaskInRatio
    LossMatchesNormalizer
    RanksMeet
