SPECIFICATION Spec
CONSTANTS
    Device = {1, 2}
    Item = {1}
    Text = {"a", "b"}
    Operations <- AllOperations
    MaxClock = 4
    MaxPackages = 1
INVARIANTS
    TypeOK
    StampIdentifiesWrite
    ClockDominatesRows
PROPERTIES
    FieldsNeverRegress
    OnlyRestoreRevives
CHECK_DEADLOCK FALSE
