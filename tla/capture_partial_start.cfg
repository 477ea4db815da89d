SPECIFICATION Spec
CONSTANTS
    Callers = {c1}
    StorageThread = storage
    NoThread = none
    InitModes = {"Dual"}
    SwitchModes = {}
    FaultyDevices = {"ir"}
    Failures = {}
    Reports <- GoodCard
INVARIANT NothingToStop
