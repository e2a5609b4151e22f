SPECIFICATION Spec
CONSTANTS
    Nobody = Nobody
    Worker = worker
    Proc = {worker, screen}
    Item = {1, 2, 3, 4}
    Uid = {11, 12, 13, 14}
    Text = {"a", "b"}
    Children <- Flat
    Initial = {1}
    Operations <- MergeOperations
    MaxEdits = 3
    MaxFaults = 0
INVARIANTS
    TypeOK
    OneToOne
PROPERTIES
    ChangesDeliveredOnce
    DeletionHolds
    UnconflictedEditsSurvive
CHECK_DEADLOCK FALSE
