SPECIFICATION Spec
CONSTANTS
    Alarm = {"wake"}
    Proc = {1}
    None = None
    Period = 2
    MaxTime = 3
    Operations = {"NOTIFY"}
    MaxCalls = 0
    MaxFaults = 1
INVARIANTS
    EnabledMeansArmed
CHECK_DEADLOCK FALSE
