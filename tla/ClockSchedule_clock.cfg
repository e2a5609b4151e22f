SPECIFICATION FairSpec
CONSTANTS
    Alarm = {"wake"}
    Proc = {1, 2}
    None = None
    Period = 2
    MaxTime = 3
    Operations <- AllOperations
    MaxCalls = 2
    MaxFaults = 2
INVARIANTS
    TypeOK
    AlarmsAgree
PROPERTIES
    RepeatingAlarmGoesOn
CHECK_DEADLOCK FALSE
