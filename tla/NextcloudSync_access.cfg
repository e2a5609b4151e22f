SPECIFICATION Spec
CONSTANTS
    Nobody = Nobody
    Worker = worker
    Proc = {worker, screen}
    Item = {1, 2}
    Uid = {11, 12}
    Text = {"a", "b"}
    Children <- Flat
    Initial = {1}
    Operations <- AccessOperations
    MaxEdits = 3
    MaxFaults = 1
PROPERTIES
    StrandedWorkStays
    QuarantineHolds
    StopHolds
    KeptWorkSurvives
CHECK_DEADLOCK FALSE
