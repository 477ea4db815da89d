SPECIFICATION Spec
CONSTANTS
    Callers = {c1, c2}
    StorageThread = storage
    NoThread = none
    InitModes = {"Normal", "IR", "Dual"}
    SwitchModes = {}
    FaultyDevices = {"rgb", "ir"}
    Failures = {"Unknown"}
    Reports <- AllReports
SYMMETRY CallerSymmetry
INVARIANTS
    TypeOK
    ResetExcludesCapture
    NoStandstill
    SdcardEdge
    RecordingLight
