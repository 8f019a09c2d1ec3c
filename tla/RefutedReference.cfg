\* The reference model of a run that goes on from a checkpoint.
CONSTANTS
    Mixes <- ResumedMixes
    MaxFaults = 0
SPECIFICATION Spec
INVARIANT
    ReferenceIsBase
CHECK_DEADLOCK FALSE
