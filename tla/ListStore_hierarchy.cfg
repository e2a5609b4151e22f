SPECIFICATION Spec
CONSTANTS
    Device = {1}
    Item = {1, 2, 3}
    Text = {"a"}
    Operations <- HierarchyOperations
    MaxClock = 7
    MaxPackages = 0
INVARIANTS
    ParentsAgreeWithChildren
CHECK_DEADLOCK FALSE
