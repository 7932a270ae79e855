\* A group of two ranks, every engine and mode, every offload and cache switch.
SPECIFICATION FairSpec
CONSTANTS
    TP = 2
    MaxUpdates = 3
    Configs <- ConfigSet
INVARIANTS
    OnPolicy
    TrainsAlone
    SeededGeneration
PROPERTIES
    KVCacheAfterOffload
    RunEnds
CHECK_DEADLOCK FALSE
