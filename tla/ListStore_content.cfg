SPECIFICATION Spec
CONSTANTS
    Device = {1, 2}
    Item = {1, 2, 3}
    Text = {"a"}
    Operations <- ContentOperations
    MaxClock = 4
    MaxPackages = 0
INVARIANTS
    Convergence
    TwoLevelForest
    CheckpointCoversState
CHECK_DEADLOCK FALSE
