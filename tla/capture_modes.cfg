SPECIFICATION FairSpec
CONSTANTS
    Callers = {c1}
    StorageThread = storage
    NoThread = none
    InitModes = {"Normal", "IR", "Dual"}
    SwitchModes = {"Normal", "IR", "Dual"}
    FaultyDevices = {"rgb", "ir"}
    Failures = {"Unknown"}
    Reports <- FillingCard
INVARIANTS
    FlagImpliesDevice
    StartTruthful
PROPERTIES
    ImplementsRecorder
    EveryCallReturns
