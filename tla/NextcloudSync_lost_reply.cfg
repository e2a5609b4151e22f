SPECIFICATION Spec
CONSTANTS
    Nobody = Nobody
    Worker = worker
    Proc = {worker}
    Item = {1, 2, 3}
    Uid = {11, 12, 13}
    Text = {"a"}
    Children <- Flat
    Initial = {1}
    Operations = {"SYNC", "ADD", "LOST_REPLY"}
    MaxEdits = 1
    MaxFaults = 1
INVARIANTS
    OneToOne
CHECK_DEADLOCK FALSE
