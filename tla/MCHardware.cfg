SPECIFICATION Spec
CONSTANTS
    Machines <- AllMachines
    MaxCpu = 4
    Masks <- AllMasks
    Pads <- BothPads
    Gpus <- TwoGpus
    SysPage = 4
    TlbPages <- Tlbs
    Faults <- AllFaults
INVARIANTS TopologyRules LeavesAreCores LookupStaysInPackage ElementsAddUp OneThreadPerProcessor CleanFailure LargestPageFound
CHECK_DEADLOCK FALSE
