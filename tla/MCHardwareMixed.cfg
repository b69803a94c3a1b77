SPECIFICATION Spec
CONSTANTS
    Machines <- MixedAmd
    MaxCpu = 4
    Masks <- AllMasks
    Pads <- OnePad
    Gpus <- TwoGpus
    SysPage = 4
    TlbPages <- Tlbs
    Faults = {}
INVARIANT LeafHomogeneous
CHECK_DEADLOCK FALSE
