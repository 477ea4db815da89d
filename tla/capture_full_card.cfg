SPECIFICATION Spec
CONSTANTS
    Callers = {c1}
    StorageThread = storage
    NoThread = none
    InitModes = {"Normal"}
    SwitchModes = {}
    FaultyDevices = {}
    Failures = {}
    Reports <- FillingCard
INVARIANT FullCardNotRecording
