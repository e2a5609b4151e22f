SPECIFICATION FairSpec
CONSTANTS
    Nobody = Nobody
    Worker = worker
    Proc = {worker}
    Item = {1, 2, 3, 4, 5, 6}
    Uid = {11, 12, 13, 14, 15, 16}
    Text = {"a"}
    Children <- Family
    Initial = {1, 2}
    Operations <- FaultOperations
    MaxEdits = 2
    MaxFaults = 1
PROPERTIES
    EventuallyInStep
CHECK_DEADLOCK FALSE
