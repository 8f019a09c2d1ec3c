\* The start of every program on up to six devices, with one worker that may fail.
CONSTANTS
    Mixes <- AllMixes
    MaxFaults = 1
SPECIFICATION Spec
INVARIANTS
    RanksAreWhole
    RefitWorldIsWhole
    OneGroupPerDevice
PROPERTIES
    SetupEnds
CHECK_DEADLOCK FALSE
