SPECIFICATION FairSpec
CONSTANTS
    Sizes <- ParamSizes
    BufferSize = 2
    PacketSize = 2
    TransferFaults = {"pack", "load", "timeout"}
    Configs <- SharingConfigs
    MaxVariants = 3
    MaxVersion = 2
    NumEngines = 2
    NumKnobs = 2
    Faults = {"validation", "reconfigure"}
INVARIANTS
    DeviceHasOneOwner
    RolloutsOnPolicy
    ValidatesOnPolicy
    StreamsFromDevice

    
