\* The configuration of the training scripts, over its first update.
SPECIFICATION Spec
CONSTANTS
    TP = 1
    MaxUpdates = 2
    Configs <- ShippedConfigs
INVARIANTS
    FreshPrefixes
CHECK_DEADLOCK FALSE
